---- MODULE Spec2Model ----
(***************************************************************************)
(* Model of the event-extraction state machine and of the dynamic          *)
(* threshold engine of the hand-motion analysis service.                   *)
(*                                                                         *)
(*   EventDetector   (analysis-service/protocol_system.py)                 *)
(*   LSTMEngine      (lstm_engine.py)                                      *)
(*   HysteresisThreshold, CUSUMDetector, AdaptiveThresholder               *)
(*                   (analysis-service/data_handling.py)                   *)
(*                                                                         *)
(* Confidences are fixed-point numbers in units of 1/ConfScale; a mean is  *)
(* kept as an exact fraction [num, den].  Python indices are 0-based and   *)
(* are kept 0-based here; a TLA+ sequence s is read at s[i + 1].           *)
(***************************************************************************)
EXTENDS Integers, Sequences, FiniteSets, TLC

(***************************************************************************)
(* Bounds of the model.                                                    *)
(***************************************************************************)
MaxLen == 5          \* longest label/confidence stream fed to an extractor
MaxSeqs == 4         \* longest batch of sequences fed to the fallback
ConfScale == 2       \* a confidence c stands for c / ConfScale

(***************************************************************************)
(* Program constants.                                                      *)
(***************************************************************************)
SEQUENCE_LENGTH == 30
DEFAULT_FPS == 30

(***************************************************************************)
(* Input alphabets.                                                        *)
(***************************************************************************)
Labels == {"A", "B", "None"}
Confs == {ConfScale - 1, ConfScale}
MergeGaps == {0, 1, 2}
MinDurations == {1, 3}
Thresholds == {ConfScale - 1, ConfScale}
Strides == {0, 1, 2}
Velocities == {0, 1, 2}
Engines == {"EventDetector", "LSTMEngine"}

\* An optional threshold: None is the empty tuple, a value v is <<v>>.
NoThreshold == <<>>
Given(v) == <<v>>

\* Value of a threshold before it is determined.
Undetermined == [num |-> 0, den |-> 1]

\* Python's None for "no current event"
NoLabel == "<null>"
NoStart == -1

VARIABLES
    engine,                  \* which extractor consumes the stream
    model_loaded,            \* EventDetector.model is not None / is_loaded
    merge_gap,               \* merge_gap / merge_gap_frames
    min_event_duration,      \* min_event_duration / min_duration_frames
    confidence_threshold,    \* self.confidence_threshold
    frame_stride,            \* frame_indices is a regular grid of this step
    labels,                  \* labels[0..i-1] consumed so far
    confidences,             \* confidences[0..i-1] consumed so far
    i,                       \* loop index of _extract_events
    current_label,
    current_start,
    current_confidences,
    events,                  \* list of DetectedEvent of the category
    lstm_events,             \* list of EventPrediction of the category
    avg_velocity,            \* input of the heuristic fallback
    pc                       \* "loop" | "lstm" | "fallback" | "done"

\* Dynamic threshold engine (data_handling.py)
VARIABLES
    impl,                    \* class whose method runs
    sig,                     \* the input signal (sig / data)
    high_threshold,          \* configured high threshold, or None
    low_threshold,           \* configured low threshold, or None
    high_thresh,             \* threshold in force (high_thresh / high)
    low_thresh,              \* threshold in force (low_thresh / low)
    idx,                     \* loop index of the method
    current_state,           \* current_state / active
    state,                   \* state / result: the mask built so far
    tpc,                     \* "idle" | "start" | "loop"
    h_arg,                   \* threshold / h as passed, or None
    k_arg,                   \* drift / k as passed, or None
    reset_after_detection,   \* CUSUMDetector.reset_after_detection
    sig_norm,                \* the normalised (centred) signal
    threshold,               \* decision threshold in force, in run units
    drift,                   \* drift in force, in run units
    cusum_pos,               \* cusum_pos / s_high, entries 0..idx-1
    cusum_neg,               \* cusum_neg / s_low, entries 0..idx-1
    change_points

\* Filter construction by name (data_handling.py)
VARIABLES
    entry,                   \* the constructor that runs
    configs,                 \* the filter names passed, in order
    cfg_i,                   \* loop index over the names
    filters,                 \* the list of filters built so far
    fpc                      \* "idle" | "loop" | "returned" | "raised"

\* Threshold selection by method name (data_handling.py)
VARIABLES
    m_entry,                 \* the entry point that runs
    m_data,                  \* data: the signal a threshold is computed for
    methods,                 \* the method names passed, in order
    m_i,                     \* loop index over the names
    results,                 \* [(method, threshold)] gathered so far
    consensus,               \* the threshold returned
    mpc                      \* "idle" | "loop" | "returned" | "raised"

\* Objects that live across analysis runs (data_handling.py,
\* protocol_system.py)
VARIABLES
    calibration,             \* AdaptiveFilterChain.calibration, or None
    chain_filters,           \* AdaptiveFilterChain.filters
    calibration_stats,       \* AdaptiveEventDetector.calibration_stats
    recording,               \* the recording of the latest run
    filtered,                \* what apply returned for it
    threshold_used,          \* confidence threshold detect_events ran with
    n_runs                   \* runs made through the objects so far

\* Detection without a classifier (protocol_system.py, lstm_engine.py)
VARIABLES
    detector,                \* class whose detect_events runs
    loaded,                  \* self.model is not None / self.is_loaded
    motion_magnitude,        \* avg_velocity / motion_magnitude per sequence
    frame_step,              \* spacing of the frame_indices passed
    fb_result,               \* the dictionary detect_events returned
    fbpc                     \* "idle" | "start" | "done"

\* Clinical scoring (protocol_system.py)
VARIABLES
    biomarkers,              \* the dictionary passed to score_all
    scored_biomarkers,
    domain_scores,
    overall_score,
    overall_severity,
    score,                   \* argument of classify_severity
    severity,                \* its result
    ref_name,                \* reference range get_percentile_score is asked of
    ref_values,              \* the two values it is asked for
    percentiles,             \* its two results
    log,                     \* warnings emitted while scoring
    spc                      \* "idle" | "start" | "done"

\* Windowed filters (data_handling.py)
VARIABLES
    filter_kind,             \* class whose apply runs
    window,                  \* window / kernel_size / order
    signal_in,               \* data as passed
    signal_out,              \* data as returned
    wpc                      \* "idle" | "start" | "done"

\* BiomarkerCalculator (protocol_system.py)
VARIABLES
    bm_method,               \* the method that runs
    bm_len,                  \* number of samples of the signal passed
    bm_velocity,             \* whether a velocity signal is passed with it
    bm_cycles,               \* number of movement cycles found in it
    bm_result,               \* what the method returned, field by field
    bpc                      \* "idle" | "start" | "returned" | "raised"

\* AdaptiveEventDetector.detect_events_adaptive (protocol_system.py)
VARIABLES
    ad_model,                \* self.model is not None
    ad_threshold,            \* self.confidence_threshold, in hundredths
    ad_original,             \* its value when the call was made
    ad_stats,                \* self.calibration_stats, or None
    ad_len,                  \* len(sequences)
    ad_indices,              \* len(frame_indices), or None
    ad_calls,                \* calls made so far
    apc                      \* "idle" | "start" | "inner" | "plain" |
                             \* "returned" | "raised"

\* DynamicThresholdEngine._extract_segments (data_handling.py)
VARIABLES
    mask,                    \* the boolean state passed
    seg_i,                   \* loop index
    in_segment,
    seg_start,               \* start
    segments,                \* list of (start, end) built so far
    gpc                      \* "idle" | "loop" | "done"

\* Job records of the processing service (processing-service/main.py)
VARIABLES
    jobs,                    \* the module-level dictionary, by job id
    next_job,                \* number of jobs started so far
    task,                    \* position of process_video_task, by job id
    worker                   \* position of the worker thread, by job id

params == <<engine, model_loaded, merge_gap, min_event_duration,
            confidence_threshold, frame_stride>>

edvars == <<params, labels, confidences, i, current_label, current_start,
            current_confidences, events, lstm_events, avg_velocity, pc>>

hystvars == <<impl, sig, high_threshold, low_threshold, high_thresh,
              low_thresh, idx, current_state, state, tpc>>

cusumvars == <<h_arg, k_arg, reset_after_detection, sig_norm, threshold,
               drift, cusum_pos, cusum_neg, change_points>>

filtervars == <<entry, configs, cfg_i, filters, fpc>>

methodvars == <<m_entry, m_data, methods, m_i, results, consensus, mpc>>

runvars == <<calibration, chain_filters, calibration_stats, recording,
             filtered, threshold_used, n_runs>>

fallbackvars == <<detector, loaded, motion_magnitude, frame_step,
                  fb_result, fbpc>>

scoringvars == <<biomarkers, scored_biomarkers, domain_scores, overall_score,
                 overall_severity, score, severity, ref_name, ref_values,
                 percentiles, log, spc>>

windowvars == <<filter_kind, window, signal_in, signal_out, wpc>>

biovars == <<bm_method, bm_len, bm_velocity, bm_cycles, bm_result, bpc>>

adaptvars == <<ad_model, ad_threshold, ad_original, ad_stats, ad_len,
               ad_indices, ad_calls, apc>>

segvars == <<mask, seg_i, in_segment, seg_start, segments, gpc>>

jobvars == <<jobs, next_job, task, worker>>

extvars == <<filtervars, methodvars, runvars, fallbackvars, scoringvars,
             windowvars, biovars, adaptvars, segvars, jobvars>>

thvars == <<hystvars, cusumvars, extvars>>

vars == <<edvars, thvars>>

(***************************************************************************)
(* Helpers.                                                                *)
(***************************************************************************)
RECURSIVE SumSeq(_)
SumSeq(s) == IF s = <<>> THEN 0 ELSE Head(s) + SumSeq(Tail(s))

RECURSIVE MaxSeq(_)
MaxSeq(s) ==
    IF Len(s) = 1 THEN s[1]
    ELSE LET m == MaxSeq(Tail(s)) IN IF Head(s) > m THEN Head(s) ELSE m

\* frame_indices[k]: np.arange(len(sequences)) by default, a regular grid
\* of window centres otherwise.
FrameIndex(k) == k * frame_stride

\* label in ['None', 'none', 'NONE'] or conf < self.confidence_threshold
IsSkipped(label, conf) ==
    label = "None" \/ conf < confidence_threshold

\* a mean of the confidences that forgets to divide by the count
CreateEvent_SumNotMean(label, start_frame, end_frame, confs) ==
    [ label           |-> label,
      start_frame     |-> start_frame,
      end_frame       |-> end_frame,
      duration_frames |-> end_frame - start_frame + 1,
      confidence      |-> [num |-> SumSeq(confs), den |-> ConfScale],
      peak_confidence |-> [num |-> MaxSeq(confs), den |-> ConfScale] ]

\* EventDetector._create_event
CreateEvent(label, start_frame, end_frame, confs) ==
    [ label           |-> label,
      start_frame     |-> start_frame,
      end_frame       |-> end_frame,
      duration_frames |-> end_frame - start_frame + 1,
      confidence      |-> [num |-> SumSeq(confs), den |-> Len(confs) * ConfScale],
      peak_confidence |-> [num |-> MaxSeq(confs), den |-> ConfScale] ]

\* a duration filter that is off by one frame
FilterByDuration_OffByOne(evs) ==
    SelectSeq(evs, LAMBDA e : e.duration_frames >= min_event_duration - 1)

\* events = [e for e in events if e.duration_frames >= self.min_event_duration]
FilterByDuration(evs) ==
    SelectSeq(evs, LAMBDA e : e.duration_frames >= min_event_duration)

\* No filter is being constructed.
FilterFactoryIdle ==
    /\ entry = "none"
    /\ configs = <<>>
    /\ cfg_i = 0
    /\ filters = <<>>
    /\ fpc = "idle"

\* No threshold is being selected.
ThresholdMethodIdle ==
    /\ m_entry = "none"
    /\ m_data = <<>>
    /\ methods = <<>>
    /\ m_i = 0
    /\ results = <<>>
    /\ consensus = <<>>
    /\ mpc = "idle"

\* No adaptive chain or adaptive detector exists.
RunsIdle ==
    /\ calibration = <<>>
    /\ chain_filters = <<>>
    /\ calibration_stats = <<>>
    /\ recording = <<>>
    /\ filtered = <<>>
    /\ threshold_used = <<>>
    /\ n_runs = 0

\* No classifier-less detection is in progress.
FallbackIdle ==
    /\ detector = "none"
    /\ loaded = FALSE
    /\ motion_magnitude = <<>>
    /\ frame_step = 0
    /\ fb_result = <<>>
    /\ fbpc = "idle"

\* No scoring is in progress.
ScoringIdle ==
    /\ biomarkers = <<>>
    /\ scored_biomarkers = <<>>
    /\ domain_scores = <<>>
    /\ overall_score = <<>>
    /\ overall_severity = "none"
    /\ score = <<>>
    /\ severity = "none"
    /\ ref_name = "none"
    /\ ref_values = <<>>
    /\ percentiles = <<>>
    /\ log = <<>>
    /\ spc = "idle"

\* No windowed filter is being applied.
WindowIdle ==
    /\ filter_kind = "none"
    /\ window = 0
    /\ signal_in = <<>>
    /\ signal_out = <<>>
    /\ wpc = "idle"

\* No biomarker is being computed.
BiomarkerIdle ==
    /\ bm_method = "none"
    /\ bm_len = 0
    /\ bm_velocity = FALSE
    /\ bm_cycles = 0
    /\ bm_result = <<>>
    /\ bpc = "idle"

\* No adaptive detection is in progress.
AdaptiveIdle ==
    /\ ad_model = FALSE
    /\ ad_threshold = 0
    /\ ad_original = 0
    /\ ad_stats = <<>>
    /\ ad_len = 0
    /\ ad_indices = <<>>
    /\ ad_calls = 0
    /\ apc = "idle"

\* No segment extraction is in progress.
SegmentsIdle ==
    /\ mask = <<>>
    /\ seg_i = 0
    /\ in_segment = FALSE
    /\ seg_start = 0
    /\ segments = <<>>
    /\ gpc = "idle"

\* The processing service holds no job.
JobsIdle ==
    /\ jobs = <<>>
    /\ next_job = 0
    /\ task = <<>>
    /\ worker = <<>>

\* Every component but the named one is idle.
ExtIdleExcept(c) ==
    /\ c = "filters" \/ FilterFactoryIdle
    /\ c = "methods" \/ ThresholdMethodIdle
    /\ c = "runs" \/ RunsIdle
    /\ c = "fallback" \/ FallbackIdle
    /\ c = "scoring" \/ ScoringIdle
    /\ c = "window" \/ WindowIdle
    /\ c = "biomarkers" \/ BiomarkerIdle
    /\ c = "adaptive" \/ AdaptiveIdle
    /\ c = "segments" \/ SegmentsIdle
    /\ c = "jobs" \/ JobsIdle

ExtIdle == ExtIdleExcept("none")

\* No change-point detection is in progress.
CusumIdle ==
    /\ h_arg = NoThreshold
    /\ k_arg = NoThreshold
    /\ reset_after_detection = FALSE
    /\ sig_norm = <<>>
    /\ threshold = 0
    /\ drift = 0
    /\ cusum_pos = <<>>
    /\ cusum_neg = <<>>
    /\ change_points = <<>>

\* No threshold-engine call is in progress.
ThresholdEngineIdle ==
    /\ impl = "none"
    /\ sig = <<>>
    /\ high_threshold = NoThreshold
    /\ low_threshold = NoThreshold
    /\ high_thresh = Undetermined
    /\ low_thresh = Undetermined
    /\ idx = 0
    /\ current_state = FALSE
    /\ state = <<>>
    /\ tpc = "idle"
    /\ CusumIdle

(***************************************************************************)
(* Construction and detect_events dispatch.                                *)
(***************************************************************************)
Init ==
    /\ engine \in Engines
    /\ model_loaded \in BOOLEAN
    /\ engine = "LSTMEngine" => model_loaded
    /\ merge_gap \in MergeGaps
    /\ min_event_duration \in MinDurations
    /\ confidence_threshold \in Thresholds
    /\ frame_stride \in Strides
    /\ labels = <<>>
    /\ confidences = <<>>
    /\ i = 0
    /\ current_label = NoLabel
    /\ current_start = NoStart
    /\ current_confidences = <<>>
    /\ events = <<>>
    /\ lstm_events = <<>>
    /\ avg_velocity = <<>>
    /\ pc = IF engine = "LSTMEngine" THEN "lstm"
            ELSE IF model_loaded THEN "loop" ELSE "fallback"
    /\ ThresholdEngineIdle
    /\ ExtIdle

(***************************************************************************)
(* EventDetector._extract_events                                           *)
(***************************************************************************)
\* a dropout branch that compares the gap strictly
OnDropout_StrictGap ==
    IF current_label # NoLabel /\ ~(i - current_start < merge_gap)
    THEN /\ events' = Append(events,
                CreateEvent(current_label, FrameIndex(current_start),
                            FrameIndex(i - 1), current_confidences))
         /\ current_label' = NoLabel
         /\ current_confidences' = <<>>
         /\ UNCHANGED current_start
    ELSE UNCHANGED <<events, current_label, current_start, current_confidences>>

\* Frame i is "None" or below the confidence threshold.
OnDropout ==
    IF current_label # NoLabel /\ ~(i - current_start <= merge_gap)
    THEN /\ events' = Append(events,
                CreateEvent(current_label, FrameIndex(current_start),
                            FrameIndex(i - 1), current_confidences))
         /\ current_label' = NoLabel
         /\ current_confidences' = <<>>
         /\ UNCHANGED current_start
    ELSE UNCHANGED <<events, current_label, current_start, current_confidences>>

\* a valid-frame branch that closes the open event at the frame of the new
\* label instead of the frame before it
OnValid_CloseAtCurrent(label, conf) ==
    IF current_label = NoLabel
    THEN /\ current_label' = label
         /\ current_start' = i
         /\ current_confidences' = <<conf>>
         /\ UNCHANGED events
    ELSE IF label = current_label
         THEN /\ current_confidences' = Append(current_confidences, conf)
              /\ UNCHANGED <<events, current_label, current_start>>
         ELSE /\ events' = Append(events,
                     CreateEvent(current_label, FrameIndex(current_start),
                                 FrameIndex(i), current_confidences))
              /\ current_label' = label
              /\ current_start' = i
              /\ current_confidences' = <<conf>>

\* a valid-frame branch that keeps extending the open event on a label change
OnValid_NoSplit(label, conf) ==
    IF current_label = NoLabel
    THEN /\ current_label' = label
         /\ current_start' = i
         /\ current_confidences' = <<conf>>
         /\ UNCHANGED events
    ELSE /\ current_confidences' = Append(current_confidences, conf)
         /\ UNCHANGED <<events, current_label, current_start>>

\* a valid-frame branch that forgets to accumulate on continuation
OnValid_NoAppend(label, conf) ==
    IF current_label = NoLabel
    THEN /\ current_label' = label
         /\ current_start' = i
         /\ current_confidences' = <<conf>>
         /\ UNCHANGED events
    ELSE IF label = current_label
         THEN UNCHANGED <<events, current_label, current_start,
                          current_confidences>>
         ELSE /\ events' = Append(events,
                     CreateEvent(current_label, FrameIndex(current_start),
                                 FrameIndex(i - 1), current_confidences))
              /\ current_label' = label
              /\ current_start' = i
              /\ current_confidences' = <<conf>>

\* Frame i carries a label with confidence at or above the threshold.
OnValid(label, conf) ==
    IF current_label = NoLabel
    THEN /\ current_label' = label
         /\ current_start' = i
         /\ current_confidences' = <<conf>>
         /\ UNCHANGED events
    ELSE IF label = current_label
         THEN /\ current_confidences' = Append(current_confidences, conf)
              /\ UNCHANGED <<events, current_label, current_start>>
         ELSE /\ events' = Append(events,
                     CreateEvent(current_label, FrameIndex(current_start),
                                 FrameIndex(i - 1), current_confidences))
              /\ current_label' = label
              /\ current_start' = i
              /\ current_confidences' = <<conf>>

\* One iteration of the for-loop of _extract_events on frame i.
ExtractStep(label, conf) ==
    /\ pc = "loop"
    /\ i < MaxLen
    /\ labels' = Append(labels, label)
    /\ confidences' = Append(confidences, conf)
    /\ i' = i + 1
    /\ IF IsSkipped(label, conf) THEN OnDropout ELSE OnValid(label, conf)
    /\ UNCHANGED <<thvars, params, lstm_events, avg_velocity, pc>>

Step == \E label \in Labels, conf \in Confs : ExtractStep(label, conf)

\* a stream end that drops the event still open
CloseFinal_Dropped(n) == events

\* "Close final event": the event still open after the last frame.
CloseFinal(n) ==
    IF n # 0 /\ current_label # NoLabel
    THEN Append(events,
             CreateEvent(current_label, FrameIndex(current_start),
                         FrameIndex(n - 1), current_confidences))
    ELSE events

\* End of the stream: n = i frames were consumed.  Close the final event and
\* filter by minimum duration.
Finish ==
    /\ pc = "loop"
    /\ events' = FilterByDuration(CloseFinal(i))
    /\ pc' = "done"
    /\ UNCHANGED <<thvars, params, labels, confidences, i, current_label,
                   current_start, current_confidences, lstm_events,
                   avg_velocity>>

\* np.percentile(avg_velocity, 75) > comparison, kept exact: the 75th
\* percentile is the linear interpolation at position 0.75 * (n - 1) of the
\* sorted data; v > percentile  <=>  4 v > 4 s[lo] + fr (s[hi] - s[lo]).
AbovePercentile75(v, data) ==
    LET n   == Len(data)
        s   == SortSeq(data, LAMBDA a, b : a < b)
        lo  == (3 * (n - 1)) \div 4
        fr  == (3 * (n - 1)) % 4
        hi  == IF lo + 1 < n THEN lo + 1 ELSE lo
    IN  4 * v > 4 * s[lo + 1] + fr * (s[hi + 1] - s[lo + 1])

\* EventDetector._fallback_detection, on the per-sequence average velocity
\* magnitudes derived from the wrist positions.
FallbackEvents(vel) ==
    IF Len(vel) = 0 THEN <<>>
    ELSE LET motion_indices == {k \in 0..(Len(vel) - 1) :
                                    AbovePercentile75(vel[k + 1], vel)}
         IN  IF motion_indices = {} THEN <<>>
             ELSE LET start == CHOOSE k \in motion_indices :
                                   \A m \in motion_indices : k <= m
                      end   == CHOOSE k \in motion_indices :
                                   \A m \in motion_indices : k >= m
                  IN  << [ label           |-> "Motion",
                           start_frame     |-> start,
                           end_frame       |-> end,
                           duration_frames |-> end - start + 1,
                           confidence      |-> [num |-> 7, den |-> 10],
                           peak_confidence |-> [num |-> 7, den |-> 10] ] >>

VelocityBatches == UNION {[1..k -> Velocities] : k \in 0..MaxSeqs}

\* detect_events when self.model is None
FallbackDetection ==
    /\ pc = "fallback"
    /\ \E vel \in VelocityBatches :
          /\ avg_velocity' = vel
          /\ events' = FallbackEvents(vel)
    /\ pc' = "done"
    /\ UNCHANGED <<thvars, params, labels, confidences, i, current_label,
                   current_start, current_confidences, lstm_events>>

(***************************************************************************)
(* LSTMEngine._extract_events                                              *)
(***************************************************************************)
\* frame_indices = np.arange(len(sequences)) + SEQUENCE_LENGTH // 2
LstmFrameIndex(k) == k * frame_stride + SEQUENCE_LENGTH \div 2

\* The inner while-loop: first j at which the segment started at start_idx
\* stops ("same event and high confidence", or same event within the gap).
RECURSIVE LstmSegmentEnd(_, _, _, _)
LstmSegmentEnd(names, confs, j, start_idx) ==
    IF /\ j < Len(names)
       /\ names[j + 1] = names[start_idx + 1]
       /\ \/ confs[j + 1] >= confidence_threshold
          \/ (j - start_idx) <= merge_gap
    THEN LstmSegmentEnd(names, confs, j + 1, start_idx)
    ELSE j

\* The outer while-loop from index k on.
RECURSIVE LstmExtractFrom(_, _, _)
LstmExtractFrom(names, confs, k) ==
    IF k >= Len(names) THEN <<>>
    ELSE IF ~(confs[k + 1] >= confidence_threshold)
    THEN LstmExtractFrom(names, confs, k + 1)
    ELSE LET j               == LstmSegmentEnd(names, confs, k + 1, k)
             start_frame     == LstmFrameIndex(k)
             end_frame       == LstmFrameIndex(j - 1)
             duration_frames == end_frame - start_frame + 1
             segment         == SubSeq(confs, k + 1, j)
             ev == [ event_type       |-> names[k + 1],
                     confidence       |-> [num |-> SumSeq(segment),
                                           den |-> Len(segment) * ConfScale],
                     frame_start      |-> start_frame,
                     frame_end        |-> end_frame,
                     duration_seconds |-> [num |-> duration_frames,
                                           den |-> DEFAULT_FPS] ]
         IN  (IF duration_frames >= min_event_duration THEN <<ev>> ELSE <<>>)
                 \o LstmExtractFrom(names, confs, j)

\* detect_events gathers the per-frame (event name, confidence) of the
\* category, one sequence at a time.
LstmCollect ==
    /\ pc = "lstm"
    /\ i < MaxLen
    /\ \E label \in Labels, conf \in Confs :
          /\ labels' = Append(labels, label)
          /\ confidences' = Append(confidences, conf)
    /\ i' = i + 1
    /\ UNCHANGED <<thvars, params, current_label, current_start, current_confidences,
                   events, lstm_events, avg_velocity, pc>>

\* LSTMEngine._extract_events on the gathered stream.
LstmExtract ==
    /\ pc = "lstm"
    /\ lstm_events' = LstmExtractFrom(labels, confidences, 0)
    /\ pc' = "done"
    /\ UNCHANGED <<thvars, params, labels, confidences, i, current_label,
                   current_start, current_confidences, events, avg_velocity>>

Next == Step \/ Finish \/ FallbackDetection \/ LstmCollect \/ LstmExtract

Spec == Init /\ [][Next]_vars

(***************************************************************************)
(* Properties of the event extraction layer.                               *)
(***************************************************************************)
ExtractionDone == pc = "done" /\ engine = "EventDetector" /\ model_loaded

AllValid ==
    \A k \in 1..Len(labels) :
        labels[k] # "None" /\ confidences[k] >= confidence_threshold

\* Indices of the frames of [a, b] with a label and enough confidence.
ValidIn(a, b) ==
    {k \in a..b : labels[k + 1] # "None"
                  /\ confidences[k + 1] >= confidence_threshold}

RECURSIVE SumOver(_)
SumOver(S) ==
    IF S = {} THEN 0
    ELSE LET k == CHOOSE x \in S : TRUE
         IN  confidences[k + 1] + SumOver(S \ {k})

\* C1: the stream A,A,None,A,A with merge_gap 1, every confidence at or
\* above the threshold and a minimum duration of 3 yields exactly one event
\* spanning frames 0..4.
C1_MergeGapExample ==
    ( /\ ExtractionDone
      /\ labels = <<"A", "A", "None", "A", "A">>
      /\ \A k \in 1..5 : confidences[k] >= confidence_threshold
      /\ merge_gap = 1
      /\ min_event_duration = 3
      /\ frame_stride = 1 )
    => /\ Len(events) = 1
       /\ events[1].start_frame = 0
       /\ events[1].end_frame = 4

\* C2: a "None" or low-confidence frame never starts an event and never
\* changes the active label; while an event is active it stays open if the
\* frame is within merge_gap of the event's start, otherwise the event is
\* closed and the machine is idle again.
C2_DropoutIgnoredOrCloses ==
    [][ ( /\ pc = "loop"
          /\ i' = i + 1
          /\ \/ labels'[i'] = "None"
             \/ confidences'[i'] < confidence_threshold )
        => /\ current_label = NoLabel
              => current_label' = NoLabel /\ events' = events
           /\ current_label # NoLabel
              => IF i - current_start <= merge_gap
                 THEN /\ current_label' = current_label
                      /\ current_start' = current_start
                      /\ current_confidences' = current_confidences
                      /\ events' = events
                 ELSE /\ current_label' = NoLabel
                      /\ Len(events') = Len(events) + 1
                      /\ SubSeq(events', 1, Len(events)) = events
                      /\ events'[Len(events')].label = current_label
      ]_vars

\* A dropout closed the first event and a later dropout was bridged.
C2_Witness ==
    /\ pc = "loop"
    /\ merge_gap = 1
    /\ labels = <<"A", "A", "None", "B", "None">>
    /\ Len(events) = 1
    /\ current_label = "B"

\* C3: every returned event lasts at least the configured minimum, for both
\* extractors; a 2-frame stream with a minimum of 3 yields no event.
C3_MinDuration ==
    /\ ExtractionDone
       => \A k \in 1..Len(events) :
             /\ events[k].duration_frames >= min_event_duration
             /\ events[k].end_frame - events[k].start_frame + 1
                    >= min_event_duration
    /\ (pc = "done" /\ engine = "LSTMEngine")
       => \A k \in 1..Len(lstm_events) :
             /\ lstm_events[k].frame_end - lstm_events[k].frame_start + 1
                    >= min_event_duration
             /\ lstm_events[k].duration_seconds.num >= min_event_duration
    /\ ( /\ pc = "done"
         /\ Len(labels) = 2
         /\ frame_stride = 1
         /\ min_event_duration = 3 )
       => events = <<>> /\ lstm_events = <<>>

\* A 2-frame run was closed at stream end and filtered out.
C3_Witness ==
    /\ ExtractionDone
    /\ labels = <<"A", "A">>
    /\ AllValid
    /\ frame_stride = 1
    /\ min_event_duration = 3
    /\ current_label = "A"
    /\ events = <<>>

\* C4: a valid frame with a label other than the active one closes the
\* current event at the previous frame and opens an event of the new label
\* at this frame.
C4_LabelChangeSplits ==
    [][ ( /\ pc = "loop"
          /\ i' = i + 1
          /\ labels'[i'] # "None"
          /\ confidences'[i'] >= confidence_threshold
          /\ current_label # NoLabel
          /\ labels'[i'] # current_label )
        => /\ Len(events') = Len(events) + 1
           /\ SubSeq(events', 1, Len(events)) = events
           /\ LET closed == events'[Len(events')]
              IN  /\ closed.label = current_label
                  /\ closed.start_frame = FrameIndex(current_start)
                  /\ closed.end_frame = FrameIndex(i - 1)
                  /\ closed.label # current_label'
                  /\ current_start <= i - 1
                  /\ i - 1 < current_start'
           /\ current_label' = labels'[i']
           /\ current_start' = i
           /\ current_confidences' = <<confidences'[i']>>
      ]_vars

\* An event of label A was closed by a frame of label B, which is now open.
C4_Witness ==
    /\ pc = "loop"
    /\ labels = <<"A", "A", "B">>
    /\ AllValid
    /\ Len(events) = 1
    /\ events[1].label = "A"
    /\ current_label = "B"
    /\ current_start = 2

\* C5: at stream end an open event is closed at the last frame; it is
\* returned exactly when it meets the minimum duration.
C5_StreamEndCloses ==
    [][ ( /\ pc = "loop"
          /\ pc' = "done"
          /\ current_label # NoLabel )
        => LET start == FrameIndex(current_start)
               end   == FrameIndex(i - 1)
           IN  IF end - start + 1 >= min_event_duration
               THEN /\ Len(events') >= 1
                    /\ LET last == events'[Len(events')]
                       IN  /\ last.label = current_label
                           /\ last.start_frame = start
                           /\ last.end_frame = end
               ELSE \A k \in 1..Len(events') :
                        \E m \in 1..Len(events) : events'[k] = events[m]
      ]_vars

\* The stream ended while an event was open, and it was returned.
C5_Witness ==
    /\ ExtractionDone
    /\ labels = <<"None", "A", "A", "A">>
    /\ AllValid = FALSE
    /\ current_label = "A"
    /\ Len(events) = 1
    /\ events[1].start_frame = FrameIndex(1)
    /\ events[1].end_frame = FrameIndex(3)

\* C6: every DetectedEvent of the state machine and of the heuristic
\* fallback has start_frame <= end_frame and a confidence within [0, 1].
C6_EventWellFormed ==
    engine = "EventDetector"
    => \A k \in 1..Len(events) :
          /\ events[k].start_frame <= events[k].end_frame
          /\ events[k].confidence.den > 0
          /\ 0 <= events[k].confidence.num
          /\ events[k].confidence.num <= events[k].confidence.den

\* Two events of more than one frame each were returned.
C6_Witness ==
    /\ ExtractionDone
    /\ Len(events) = 2
    /\ events[1].confidence.den = 2 * ConfScale
    /\ events[2].confidence.den = 3 * ConfScale

\* C7: the confidence of a returned event is the arithmetic mean, and its
\* peak confidence the maximum, of the confidences of the frames the event
\* accumulated, which are the labelled, confident frames of its span.
C7_MeanAndPeak ==
    (ExtractionDone /\ frame_stride >= 1)
    => \A k \in 1..Len(events) :
          LET a == events[k].start_frame \div frame_stride
              b == events[k].end_frame \div frame_stride
              S == ValidIn(a, b)
          IN  /\ S # {}
              /\ \A x \in S : labels[x + 1] = events[k].label
              /\ events[k].confidence.num * Cardinality(S) * ConfScale
                     = SumOver(S) * events[k].confidence.den
              /\ \A x \in S : confidences[x + 1] <= events[k].peak_confidence.num
              /\ \E x \in S : confidences[x + 1] = events[k].peak_confidence.num
              /\ events[k].peak_confidence.den = ConfScale

\* An event accumulated frames of different confidence around a dropout.
C7_Witness ==
    /\ ExtractionDone
    /\ frame_stride = 1
    /\ labels = <<"A", "None", "A", "A">>
    /\ confidences = <<ConfScale, ConfScale, ConfScale - 1, ConfScale>>
    /\ confidence_threshold = ConfScale - 1
    /\ Len(events) = 1
    /\ events[1].confidence.num = 3 * ConfScale - 1
    /\ events[1].confidence.den = 3 * ConfScale

\* the frame at stream position k carries this label with enough confidence
CarriesLabel(k, label) ==
    /\ k \in 0..(Len(labels) - 1)
    /\ labels[k + 1] = label
    /\ confidences[k + 1] >= confidence_threshold

\* C25: every event of EventDetector._extract_events starts and ends on a
\* frame that carried the event's own label with confidence at or above the
\* threshold, however the event was closed; it never starts or ends on a
\* None or low-confidence frame.
C25_EventEndsOnOwnFrames ==
    (ExtractionDone /\ frame_stride >= 1)
    => \A k \in 1..Len(events) :
          /\ CarriesLabel(events[k].start_frame \div frame_stride,
                          events[k].label)
          /\ CarriesLabel(events[k].end_frame \div frame_stride,
                          events[k].label)

\* C27: with strictly increasing frame indices the events of
\* EventDetector._extract_events are ordered by start_frame and pairwise
\* disjoint: each event ends strictly before the next one starts.
C27_EventsOrderedDisjoint ==
    (engine = "EventDetector" /\ model_loaded /\ frame_stride >= 1)
    => \A k \in 1..(Len(events) - 1) :
          /\ events[k].start_frame < events[k + 1].start_frame
          /\ events[k].end_frame < events[k + 1].start_frame

\* A label change closed one event and opened the next at the frame after
\* it, and both were returned.
C27_Witness ==
    /\ ExtractionDone
    /\ frame_stride = 2
    /\ labels = <<"A", "A", "B", "B">>
    /\ AllValid
    /\ Len(events) = 2
    /\ events[1].end_frame = 2
    /\ events[2].start_frame = 4

\* C28: no event of either extractor has the label or event type "None",
\* also when the classifier outputs "None" with confidence at or above the
\* threshold.
C28_NoNoneEvent ==
    pc = "done"
    => /\ \A k \in 1..Len(events) : events[k].label # "None"
       /\ \A k \in 1..Len(lstm_events) : lstm_events[k].event_type # "None"

(***************************************************************************)
(* Dynamic threshold engine: hysteresis thresholding.                      *)
(*                                                                         *)
(* Thresholds are exact fractions [num, den].                              *)
(***************************************************************************)
MaxSigLen == 3       \* longest enumerated signal

SigValues == {0, 2, 8, 9}
TestSignal == <<0, 0, 8, 9, 2, 1, 9, 0, 0>>
Signals == {TestSignal} \cup UNION {[1..k -> SigValues] : k \in 1..MaxSigLen}
HighOptions == {NoThreshold, Given(7), Given(8)}
LowOptions == {NoThreshold, Given(3), Given(2)}
HysteresisImpls == {"HysteresisThreshold", "AdaptiveThresholder"}

\* No event-extraction call is in progress.
EventLayerIdle ==
    /\ engine = "EventDetector"
    /\ model_loaded = TRUE
    /\ merge_gap = 0
    /\ min_event_duration = 1
    /\ confidence_threshold = ConfScale
    /\ frame_stride = 1
    /\ labels = <<>>
    /\ confidences = <<>>
    /\ i = 0
    /\ current_label = NoLabel
    /\ current_start = NoStart
    /\ current_confidences = <<>>
    /\ events = <<>>
    /\ lstm_events = <<>>
    /\ avg_velocity = <<>>
    /\ pc = "done"

MinSeq(s) == -MaxSeq([k \in 1..Len(s) |-> -s[k]])

\* np.quantile(data, qn / qd): linear interpolation at position
\* (qn / qd) * (n - 1) of the sorted data.
Quantile(data, qn, qd) ==
    LET n  == Len(data)
        s  == SortSeq(data, LAMBDA a, b : a < b)
        lo == (qn * (n - 1)) \div qd
        fr == (qn * (n - 1)) % qd
        hi == IF lo + 1 < n THEN lo + 1 ELSE lo
    IN  [num |-> qd * s[lo + 1] + fr * (s[hi + 1] - s[lo + 1]), den |-> qd]

\* v > t  and  v < t  for an integer sample v and a fraction t
Above(v, t) == v * t.den > t.num
Below(v, t) == v * t.den < t.num

\* data_norm[k] > t and data_norm[k] < t, where
\* data_norm = (data - min) / (max - min + 1e-10): with integer samples and
\* 0 < t the tiny positive term turns "<" into "<=" on the integers.
DataNormAbove(v, data, t) ==
    (v - MinSeq(data)) * t.den > t.num * (MaxSeq(data) - MinSeq(data))
DataNormBelow(v, data, t) ==
    (v - MinSeq(data)) * t.den <= t.num * (MaxSeq(data) - MinSeq(data))

InitHysteresis ==
    /\ EventLayerIdle
    /\ impl \in HysteresisImpls
    /\ sig \in Signals
    /\ high_threshold \in HighOptions
    /\ low_threshold \in LowOptions
    /\ high_thresh = Undetermined
    /\ low_thresh = Undetermined
    /\ idx = 0
    /\ current_state = FALSE
    /\ state = <<>>
    /\ tpc = "start"
    /\ CusumIdle
    /\ ExtIdle

\* HysteresisThreshold.apply: "Determine thresholds" and initialise the loop.
ApplyBegin ==
    /\ tpc = "start"
    /\ impl = "HysteresisThreshold"
    /\ high_thresh' = IF high_threshold = NoThreshold
                      THEN Quantile(sig, 7, 10)
                      ELSE [num |-> high_threshold[1], den |-> 1]
    /\ low_thresh' = IF low_threshold = NoThreshold
                     THEN Quantile(sig, 3, 10)
                     ELSE [num |-> low_threshold[1], den |-> 1]
    /\ state' = <<>>
    /\ current_state' = FALSE
    /\ idx' = 0
    /\ tpc' = "loop"
    /\ UNCHANGED <<edvars, extvars, cusumvars, impl, sig, high_threshold, low_threshold>>

\* a single-threshold switch: leaves ON as soon as the sample is below high
HysteresisNextState_NoBand(cur, x, high, low) ==
    IF cur THEN ~Below(x, high) ELSE Above(x, high)

\* The body of the loop of HysteresisThreshold.apply on sample x.
HysteresisNextState(cur, x, high, low) ==
    IF cur THEN ~Below(x, low) ELSE Above(x, high)

\* One iteration of the loop of HysteresisThreshold.apply.
ApplyStep ==
    /\ tpc = "loop"
    /\ impl = "HysteresisThreshold"
    /\ idx < Len(sig)
    /\ current_state' = HysteresisNextState(current_state, sig[idx + 1],
                                            high_thresh, low_thresh)
    /\ state' = Append(state, current_state')
    /\ idx' = idx + 1
    /\ UNCHANGED <<edvars, extvars, cusumvars, impl, sig, high_threshold, low_threshold,
                   high_thresh, low_thresh, tpc>>

\* high_threshold or self.config.hysteresis_high (0.7 / 0.3 by default)
OrDefault(given, dn, dd) ==
    IF given = NoThreshold \/ given = Given(0)
    THEN [num |-> dn, den |-> dd]
    ELSE [num |-> given[1], den |-> 1]

\* AdaptiveThresholder.hysteresis_threshold: thresholds and loop set-up.
HysteresisThresholdBegin ==
    /\ tpc = "start"
    /\ impl = "AdaptiveThresholder"
    /\ high_thresh' = OrDefault(high_threshold, 7, 10)
    /\ low_thresh' = OrDefault(low_threshold, 3, 10)
    /\ state' = <<>>
    /\ current_state' = FALSE
    /\ idx' = 0
    /\ tpc' = "loop"
    /\ UNCHANGED <<edvars, extvars, cusumvars, impl, sig, high_threshold, low_threshold>>

\* One iteration of the loop of AdaptiveThresholder.hysteresis_threshold,
\* which compares the signal rescaled to [0, 1].
HysteresisThresholdStep ==
    /\ tpc = "loop"
    /\ impl = "AdaptiveThresholder"
    /\ idx < Len(sig)
    /\ current_state' =
          IF ~current_state
          THEN DataNormAbove(sig[idx + 1], sig, high_thresh)
          ELSE ~DataNormBelow(sig[idx + 1], sig, low_thresh)
    /\ state' = Append(state, current_state')
    /\ idx' = idx + 1
    /\ UNCHANGED <<edvars, extvars, cusumvars, impl, sig, high_threshold, low_threshold,
                   high_thresh, low_thresh, tpc>>

NextHysteresis ==
    ApplyBegin \/ ApplyStep \/ HysteresisThresholdBegin
        \/ HysteresisThresholdStep

SpecHysteresis == InitHysteresis /\ [][NextHysteresis]_vars

(***************************************************************************)
(* Properties of hysteresis thresholding.                                  *)
(***************************************************************************)
\* C8: the machine of HysteresisThreshold.apply starts OFF; it turns ON only
\* on a sample above the high threshold and OFF only on a sample below the
\* low threshold; it stays ON at or above low and stays OFF at or below high.
C8_HysteresisTransitions ==
    /\ [](impl = "HysteresisThreshold" /\ tpc = "loop" /\ idx = 0
             => ~current_state)
    /\ [][ (impl = "HysteresisThreshold" /\ tpc = "loop" /\ idx' = idx + 1)
           => LET x == sig[idx']
              IN  /\ (~current_state /\ current_state')
                        => x * high_thresh.den > high_thresh.num
                  /\ (current_state /\ ~current_state')
                        => x * low_thresh.den < low_thresh.num
                  /\ (current_state /\ x * low_thresh.den >= low_thresh.num)
                        => current_state'
                  /\ (~current_state /\ x * high_thresh.den <= high_thresh.num)
                        => ~current_state'
                  /\ state'[idx'] = current_state'
         ]_vars

\* The machine stayed ON on a sample between the two thresholds.
C8_Witness ==
    /\ impl = "HysteresisThreshold"
    /\ tpc = "loop"
    /\ high_threshold = Given(8)
    /\ low_threshold = Given(2)
    /\ sig = <<9, 2, 0>>
    /\ state = <<TRUE, TRUE, FALSE>>

\* C9: hysteresis thresholding of [0,0,8,9,2,1,9,0,0] with high = 7 and
\* low = 3 returns the mask [F,F,T,T,F,F,T,F,F].
C9_HysteresisExample ==
    ( /\ tpc = "loop"
      /\ sig = TestSignal
      /\ high_threshold = Given(7)
      /\ low_threshold = Given(3)
      /\ idx = Len(sig) )
    => state = <<FALSE, FALSE, TRUE, TRUE, FALSE, FALSE, TRUE, FALSE, FALSE>>

(***************************************************************************)
(* Dynamic threshold engine: CUSUM change-point detection.                 *)
(*                                                                         *)
(* CUSUMDetector.detect_changes works on z-scores, which are kept in       *)
(* fixed point with FP units per 1.0 (the square root of the variance is   *)
(* rounded down to a unit).  AdaptiveThresholder.cusum_detect works on     *)
(* data - mean, which is kept exact in units of 1 / (n * FP).              *)
(***************************************************************************)
MaxCusumLen == 4     \* longest enumerated signal
Resolution == 5      \* fixed-point units per 0.5

FP == 2 * Resolution

CusumValues == {0, 1, 3}
CusumSignals == UNION {[1..k -> CusumValues] : k \in 1..MaxCusumLen}
HOptions == {NoThreshold, Given(Resolution), Given(FP)}
KOptions == {NoThreshold, Given(0), Given(2)}
CusumImpls == {"CUSUMDetector", "AdaptiveThresholder"}

Abs(x) == IF x < 0 THEN -x ELSE x
Max0(x) == IF x > 0 THEN x ELSE 0

\* floor of the square root of m, by bisection on [lo, hi]
RECURSIVE ISqrtIn(_, _, _)
ISqrtIn(m, lo, hi) ==
    IF lo >= hi THEN lo
    ELSE LET mid == (lo + hi + 1) \div 2
         IN  IF mid * mid <= m THEN ISqrtIn(m, mid, hi)
             ELSE ISqrtIn(m, lo, mid - 1)
\* 46340 is the largest root whose square fits a 32-bit integer
ISqrt(m) == ISqrtIn(m, 0, IF m < 46340 THEN m ELSE 46340)

\* sig_norm = (sig - mean) / (std + 1e-10), in FP units:
\* with S the sum and Q the sum of (n x - S)^2,  z = (n x - S) sqrt(n / Q).
ZScores(data) ==
    LET n == Len(data)
        S == SumSeq(data)
        Q == SumSeq([k \in 1..n |-> (n * data[k] - S) * (n * data[k] - S)])
        r == ISqrt(n * Q * FP * FP)
    IN  [k \in 1..n |->
            IF Q = 0 THEN 0
            ELSE LET d == n * data[k] - S
                     m == (Abs(d) * r) \div Q
                 IN  IF d < 0 THEN -m ELSE m]

\* data[i] - mean, in units of 1 / (n * FP)
Centred(data) ==
    LET n == Len(data)
        S == SumSeq(data)
    IN  [k \in 1..n |-> FP * (n * data[k] - S)]

\* h or self.config.cusum_h
ArgOrDefault(given, default) ==
    IF given = NoThreshold \/ given = Given(0) THEN default ELSE given[1]

InitCusum ==
    /\ EventLayerIdle
    /\ impl \in CusumImpls
    /\ sig \in CusumSignals
    /\ h_arg \in HOptions
    /\ k_arg \in KOptions
    /\ reset_after_detection \in BOOLEAN
    /\ impl = "AdaptiveThresholder" => reset_after_detection = FALSE
    /\ high_threshold = NoThreshold
    /\ low_threshold = NoThreshold
    /\ high_thresh = Undetermined
    /\ low_thresh = Undetermined
    /\ idx = 0
    /\ current_state = FALSE
    /\ state = <<>>
    /\ sig_norm = <<>>
    /\ threshold = 0
    /\ drift = 0
    /\ cusum_pos = <<>>
    /\ cusum_neg = <<>>
    /\ change_points = <<>>
    /\ tpc = "start"
    /\ ExtIdle

\* CUSUMDetector: __init__ defaults (threshold 5.0, drift 0.5) and the
\* set-up of detect_changes; the loop starts at index 1.
DetectChangesBegin ==
    /\ tpc = "start"
    /\ impl = "CUSUMDetector"
    /\ threshold' = IF h_arg = NoThreshold THEN 10 * Resolution ELSE h_arg[1]
    /\ drift' = IF k_arg = NoThreshold THEN Resolution ELSE k_arg[1]
    /\ sig_norm' = ZScores(sig)
    /\ cusum_pos' = <<0>>
    /\ cusum_neg' = <<0>>
    /\ change_points' = <<>>
    /\ idx' = 1
    /\ tpc' = "loop"
    /\ UNCHANGED <<edvars, extvars, impl, sig, high_threshold, low_threshold,
                   high_thresh, low_thresh, current_state, state, h_arg, k_arg,
                   reset_after_detection>>

\* an update whose reset clears only the upward sum
CusumUpdate_HalfReset(prev_pos, prev_neg, z, k, h, reset) ==
    LET pos      == Max0(prev_pos + z - k)
        neg      == Max0(prev_neg - z - k)
        detected == pos > h \/ neg > h
    IN  [ detected |-> detected,
          pos      |-> IF detected /\ reset THEN 0 ELSE pos,
          neg      |-> neg ]

\* "Update CUSUMs", "Check for detection" and the optional reset.
CusumUpdate(prev_pos, prev_neg, z, k, h, reset) ==
    LET pos      == Max0(prev_pos + z - k)
        neg      == Max0(prev_neg - z - k)
        detected == pos > h \/ neg > h
    IN  [ detected |-> detected,
          pos      |-> IF detected /\ reset THEN 0 ELSE pos,
          neg      |-> IF detected /\ reset THEN 0 ELSE neg ]

\* One iteration of the loop of CUSUMDetector.detect_changes.
DetectChangesStep ==
    /\ tpc = "loop"
    /\ impl = "CUSUMDetector"
    /\ idx < Len(sig)
    /\ LET u == CusumUpdate(cusum_pos[idx], cusum_neg[idx], sig_norm[idx + 1],
                            drift, threshold, reset_after_detection)
       IN  /\ cusum_pos' = Append(cusum_pos, u.pos)
           /\ cusum_neg' = Append(cusum_neg, u.neg)
           /\ change_points' = IF u.detected THEN Append(change_points, idx)
                               ELSE change_points
    /\ idx' = idx + 1
    /\ UNCHANGED <<edvars, extvars, impl, sig, high_threshold, low_threshold,
                   high_thresh, low_thresh, current_state, state, h_arg, k_arg,
                   reset_after_detection, sig_norm, threshold, drift, tpc>>

\* AdaptiveThresholder.cusum_detect: h, k and the mean.
CusumDetectBegin ==
    /\ tpc = "start"
    /\ impl = "AdaptiveThresholder"
    /\ threshold' = Len(sig) * ArgOrDefault(h_arg, 10 * Resolution)
    /\ drift' = Len(sig) * ArgOrDefault(k_arg, Resolution)
    /\ sig_norm' = Centred(sig)
    /\ cusum_pos' = <<0>>
    /\ cusum_neg' = <<0>>
    /\ change_points' = <<>>
    /\ idx' = 1
    /\ tpc' = "loop"
    /\ UNCHANGED <<edvars, extvars, impl, sig, high_threshold, low_threshold,
                   high_thresh, low_thresh, current_state, state, h_arg, k_arg,
                   reset_after_detection>>

\* One iteration of the loop of AdaptiveThresholder.cusum_detect, which
\* has no reset.
CusumDetectStep ==
    /\ tpc = "loop"
    /\ impl = "AdaptiveThresholder"
    /\ idx < Len(sig)
    /\ LET s_high == Max0(cusum_pos[idx] + sig_norm[idx + 1] - drift)
           s_low  == Max0(cusum_neg[idx] - sig_norm[idx + 1] - drift)
       IN  /\ cusum_pos' = Append(cusum_pos, s_high)
           /\ cusum_neg' = Append(cusum_neg, s_low)
           /\ change_points' =
                 IF s_high > threshold \/ s_low > threshold
                 THEN Append(change_points, idx)
                 ELSE change_points
    /\ idx' = idx + 1
    /\ UNCHANGED <<edvars, extvars, impl, sig, high_threshold, low_threshold,
                   high_thresh, low_thresh, current_state, state, h_arg, k_arg,
                   reset_after_detection, sig_norm, threshold, drift, tpc>>

NextCusum ==
    DetectChangesBegin \/ DetectChangesStep \/ CusumDetectBegin
        \/ CusumDetectStep

SpecCusum == InitCusum /\ [][NextCusum]_vars

(***************************************************************************)
(* Properties of CUSUM.                                                    *)
(***************************************************************************)
\* C10: both detectors keep an upward and a downward sum, each lowered by
\* the drift per step and floored at 0; an index is reported exactly when
\* one of the sums exceeds the threshold; with reset enabled both sums are 0
\* right after a detection, with reset disabled a detection leaves them as
\* updated.
C10_CusumRecurrence ==
    [][ (tpc = "loop" /\ idx' = idx + 1)
        => LET z    == sig_norm[idx + 1]
               up   == cusum_pos[idx] + z - drift
               down == cusum_neg[idx] - z - drift
               pos  == IF up < 0 THEN 0 ELSE up
               neg  == IF down < 0 THEN 0 ELSE down
               hit  == pos > threshold \/ neg > threshold
           IN  /\ Len(cusum_pos') = idx + 1
               /\ Len(cusum_neg') = idx + 1
               /\ hit => change_points' = Append(change_points, idx)
               /\ ~hit => change_points' = change_points
               /\ (hit /\ reset_after_detection)
                     => cusum_pos'[idx + 1] = 0 /\ cusum_neg'[idx + 1] = 0
               /\ (~hit \/ ~reset_after_detection)
                     => cusum_pos'[idx + 1] = pos /\ cusum_neg'[idx + 1] = neg
               /\ cusum_pos'[idx + 1] >= 0
               /\ cusum_neg'[idx + 1] >= 0
      ]_vars

\* A downward detection was reset and followed by a second detection.
C10_Witness ==
    /\ impl = "CUSUMDetector"
    /\ reset_after_detection
    /\ tpc = "loop"
    /\ idx = Len(sig)
    /\ Len(change_points) >= 2
    /\ \E k \in 1..Len(sig_norm) : sig_norm[k] < 0
    /\ \E k \in 2..Len(cusum_pos) :
          /\ cusum_pos[k] = 0 /\ cusum_neg[k] = 0
          /\ cusum_neg[k - 1] - sig_norm[k] - drift > threshold


(***************************************************************************)
(* Filter construction by name: FilterFactory.create,                      *)
(* FilterFactory.create_chain, AdaptiveFilterChain._build_filter_chain.    *)
(* A filter object is written as the name of its class.                    *)
(***************************************************************************)
MaxConfigs == 3

\* FilterFactory.FILTER_MAP
FILTER_MAP ==
    "butterworth" :> "ButterworthFilter"
    @@ "chebyshev" :> "ChebyshevFilter"
    @@ "bessel" :> "BesselFilter"
    @@ "elliptic" :> "EllipticFilter"
    @@ "notch" :> "NotchFilter"
    @@ "bandpass" :> "BandpassFilter"
    @@ "moving_average" :> "MovingAverageFilter"
    @@ "exponential" :> "ExponentialSmoothingFilter"
    @@ "double_exponential" :> "DoubleExponentialFilter"
    @@ "median" :> "MedianFilter"
    @@ "savitzky_golay" :> "SavitzkyGolayFilter"
    @@ "gaussian" :> "GaussianFilter"
    @@ "kalman" :> "KalmanFilter"
    @@ "lms" :> "LMSAdaptiveFilter"
    @@ "rls" :> "RLSAdaptiveFilter"
    @@ "wavelet" :> "WaveletDenoiseFilter"
    @@ "wavelet_packet" :> "WaveletPacketFilter"
    @@ "morphological" :> "MorphologicalFilter"
    @@ "total_variation" :> "TotalVariationFilter"
    @@ "loess" :> "LOESSFilter"
    @@ "jerk_clamp" :> "JerkClampFilter"
    @@ "rts_smoother" :> "RTSSmoother"
    @@ "particle" :> "ParticleFilter"

\* The if/elif ladder of AdaptiveFilterChain._build_filter_chain
ADAPTIVE_FILTERS ==
    "hampel" :> "HampelFilter"
    @@ "adaptive_kalman" :> "AdaptiveKalmanFilter"
    @@ "adaptive_ema" :> "AdaptiveEMAFilter"
    @@ "adaptive_gaussian" :> "AdaptiveGaussianFilter"
    @@ "adaptive_savgol" :> "AdaptiveSavitzkyGolayFilter"
    @@ "adaptive_butterworth" :> "AdaptiveButterworthFilter"
    @@ "wiener" :> "WienerFilter"

FilterEntries == {"create", "create_chain", "_build_filter_chain"}

\* Names a caller may pass: two the factory knows, two only the adaptive
\* chain knows, one nobody knows.
FilterNames == {"butterworth", "median", "hampel", "wiener", "bogus"}

RECURSIVE NameLists(_)
NameLists(n) ==
    IF n = 0 THEN {<<>>}
    ELSE LET shorter == NameLists(n - 1)
         IN  shorter \cup {Append(l, x) : l \in {m \in shorter : Len(m) = n - 1},
                                          x \in FilterNames}

\* The names the entry point's own table holds.
KnownFilterNames(e) ==
    IF e = "_build_filter_chain" THEN DOMAIN ADAPTIVE_FILTERS
    ELSE DOMAIN FILTER_MAP

InitFilters ==
    /\ EventLayerIdle
    /\ ThresholdEngineIdle
    /\ ExtIdleExcept("filters")
    /\ entry \in FilterEntries
    /\ configs \in NameLists(MaxConfigs)
    /\ entry = "create" => Len(configs) = 1
    /\ cfg_i = 0
    /\ filters = <<>>
    /\ fpc = "loop"

nonFilterVars == <<edvars, hystvars, cusumvars, methodvars, runvars,
                   fallbackvars, scoringvars, windowvars,
    biovars, adaptvars, segvars, jobvars>>

\* FilterFactory.create(filter_type)
Create ==
    /\ fpc = "loop"
    /\ entry = "create"
    /\ LET filter_type == configs[1]
       IN  IF filter_type \notin DOMAIN FILTER_MAP
           THEN /\ fpc' = "raised"
                /\ UNCHANGED filters
           ELSE /\ filters' = <<FILTER_MAP[filter_type]>>
                /\ fpc' = "returned"
    /\ cfg_i' = 1
    /\ UNCHANGED <<nonFilterVars, entry, configs>>

\* FilterFactory.create_chain: one pass of "for config in configs".
CreateChainStep ==
    /\ fpc = "loop"
    /\ entry = "create_chain"
    /\ cfg_i < Len(configs)
    /\ LET filter_type == configs[cfg_i + 1]
       IN  IF filter_type \notin DOMAIN FILTER_MAP
           THEN /\ fpc' = "raised"
                /\ UNCHANGED <<filters, cfg_i>>
           ELSE /\ filters' = Append(filters, FILTER_MAP[filter_type])
                /\ cfg_i' = cfg_i + 1
                /\ UNCHANGED fpc
    /\ UNCHANGED <<nonFilterVars, entry, configs>>

\* FilterFactory.create_chain: "return chain"
CreateChainReturn ==
    /\ fpc = "loop"
    /\ entry = "create_chain"
    /\ cfg_i = Len(configs)
    /\ fpc' = "returned"
    /\ UNCHANGED <<nonFilterVars, entry, configs, cfg_i, filters>>

\* AdaptiveFilterChain._build_filter_chain: one pass of
\* "for filter_name in calib.recommended_filters"; the ladder has no else.
BuildFilterChainStep ==
    /\ fpc = "loop"
    /\ entry = "_build_filter_chain"
    /\ cfg_i < Len(configs)
    /\ LET filter_name == configs[cfg_i + 1]
       IN  filters' = IF filter_name \in DOMAIN ADAPTIVE_FILTERS
                      THEN Append(filters, ADAPTIVE_FILTERS[filter_name])
                      ELSE filters
    /\ cfg_i' = cfg_i + 1
    /\ UNCHANGED <<nonFilterVars, entry, configs, fpc>>

\* AdaptiveFilterChain._build_filter_chain: "return filters"
BuildFilterChainReturn ==
    /\ fpc = "loop"
    /\ entry = "_build_filter_chain"
    /\ cfg_i = Len(configs)
    /\ fpc' = "returned"
    /\ UNCHANGED <<nonFilterVars, entry, configs, cfg_i, filters>>

NextFilters ==
    \/ Create
    \/ CreateChainStep
    \/ CreateChainReturn
    \/ BuildFilterChainStep
    \/ BuildFilterChainReturn

SpecFilters == InitFilters /\ [][NextFilters]_vars

MaxDataLen == 3
MaxMethods == 2

\* ThresholdConfig defaults
MadScale == [num |-> 14826, den |-> 10000]
MadMultiplier == 3
IqrMultiplier == [num |-> 3, den |-> 2]
UpperQuantile == [num |-> 99, den |-> 100]

\* A unit every threshold computed here is a whole multiple of.
ThresholdUnit == 4 * MadScale.den

\* the dictionary "methods" of adaptive_threshold
THRESHOLD_METHODS ==
    {"mad", "iqr", "zscore", "quantile", "otsu", "triangle", "moment"}

\* the two branches of detect_peaks_comprehensive
PEAK_METHODS ==
    "dynamic_prominence" :> "DynamicProminencePeakDetector"
    @@ "adaptive_distance" :> "AdaptivePeakDistanceDetector"

MethodEntries ==
    {"adaptive_threshold", "multi_method_threshold",
     "detect_peaks_comprehensive"}

MethodNames == {"mad", "iqr", "quantile", "bogus"}
PeakMethodNames == {"dynamic_prominence", "adaptive_distance", "bogus"}
DataValues == {0, 1, 4}

RECURSIVE ListsOver(_, _)
ListsOver(S, n) ==
    IF n = 0 THEN {<<>>}
    ELSE LET shorter == ListsOver(S, n - 1)
         IN  shorter \cup {Append(l, x) : l \in {m \in shorter : Len(m) = n - 1},
                                          x \in S}

KnownMethods(e) ==
    IF e = "detect_peaks_comprehensive" THEN DOMAIN PEAK_METHODS
    ELSE THRESHOLD_METHODS

\* mad_threshold: median + multiplier * (median_abs_deviation * scale)
mad_threshold(d) ==
    LET median == Quantile(d, 1, 2)
        dev    == [k \in 1..Len(d) |-> Abs(2 * d[k] - median.num)]
        mad    == Quantile(dev, 1, 2)
    IN  [num |-> 2 * MadScale.den * median.num
                 + MadMultiplier * MadScale.num * mad.num,
         den |-> 4 * MadScale.den]

\* iqr_threshold: q3 + multiplier * (q3 - q1), the upper fence
iqr_threshold(d) ==
    LET q1 == Quantile(d, 25, 100)
        q3 == Quantile(d, 75, 100)
    IN  [num |-> IqrMultiplier.den * q3.num
                 + IqrMultiplier.num * (q3.num - q1.num),
         den |-> IqrMultiplier.den * q3.den]

\* quantile_threshold: np.quantile(data, upper_quantile)
quantile_threshold(d) == Quantile(d, UpperQuantile.num, UpperQuantile.den)

\* methods[method](data) for the methods evaluated here
MethodThreshold(method, d) ==
    CASE method = "mad" -> mad_threshold(d)
      [] method = "iqr" -> iqr_threshold(d)
      [] method = "quantile" -> quantile_threshold(d)

\* a threshold as a count of ThresholdUnit-ths
InUnits(t) == t.num * (ThresholdUnit \div t.den)

\* np.median(thresholds)
MedianOfThresholds(rs) ==
    LET q == Quantile([k \in 1..Len(rs) |-> InUnits(rs[k].threshold)], 1, 2)
    IN  [num |-> q.num, den |-> q.den * ThresholdUnit]

\* float(np.mean(data))
MeanOf(d) == [num |-> SumSeq(d), den |-> Len(d)]

InitMethods ==
    /\ EventLayerIdle
    /\ ThresholdEngineIdle
    /\ ExtIdleExcept("methods")
    /\ m_entry \in MethodEntries
    /\ m_data \in ListsOver(DataValues, MaxDataLen) \ {<<>>}
    /\ methods \in
         IF m_entry = "multi_method_threshold"
         THEN ListsOver(MethodNames, MaxMethods)
         ELSE IF m_entry = "adaptive_threshold"
         THEN {<<x>> : x \in MethodNames}
         ELSE {<<x>> : x \in PeakMethodNames}
    /\ m_i = 0
    /\ results = <<>>
    /\ consensus = <<>>
    /\ mpc = "loop"

nonMethodVars == <<edvars, hystvars, cusumvars, filtervars, runvars,
                   fallbackvars, scoringvars, windowvars,
    biovars, adaptvars, segvars, jobvars>>

\* AdaptiveThresholder.adaptive_threshold(data, method)
AdaptiveThreshold ==
    /\ mpc = "loop"
    /\ m_entry = "adaptive_threshold"
    /\ LET method == methods[1]
       IN  IF method \notin THRESHOLD_METHODS
           THEN /\ mpc' = "raised"
                /\ UNCHANGED <<results, consensus>>
           ELSE /\ results' = <<[method |-> method,
                                 threshold |-> MethodThreshold(method, m_data)]>>
                /\ consensus' = MethodThreshold(method, m_data)
                /\ mpc' = "returned"
    /\ m_i' = 1
    /\ UNCHANGED <<nonMethodVars, m_entry, m_data, methods>>

\* multi_method_threshold: one pass of "for method in methods"; the
\* ValueError of adaptive_threshold is caught by "except Exception".
MultiMethodStep ==
    /\ mpc = "loop"
    /\ m_entry = "multi_method_threshold"
    /\ m_i < Len(methods)
    /\ LET method == methods[m_i + 1]
       IN  results' =
             IF method \notin THRESHOLD_METHODS THEN results
             ELSE Append(results,
                         [method |-> method,
                          threshold |-> MethodThreshold(method, m_data)])
    /\ m_i' = m_i + 1
    /\ UNCHANGED <<nonMethodVars, m_entry, m_data, methods, consensus, mpc>>

\* multi_method_threshold: the fallback and the consensus
MultiMethodReturn ==
    /\ mpc = "loop"
    /\ m_entry = "multi_method_threshold"
    /\ m_i = Len(methods)
    /\ consensus' = IF results = <<>> THEN MeanOf(m_data)
                    ELSE MedianOfThresholds(results)
    /\ mpc' = "returned"
    /\ UNCHANGED <<nonMethodVars, m_entry, m_data, methods, m_i, results>>

\* DynamicThresholdEngine.detect_peaks_comprehensive(sig, method)
DetectPeaksComprehensive ==
    /\ mpc = "loop"
    /\ m_entry = "detect_peaks_comprehensive"
    /\ LET method == methods[1]
       IN  IF method \notin DOMAIN PEAK_METHODS
           THEN /\ mpc' = "raised"
                /\ UNCHANGED results
           ELSE /\ results' = <<[method |-> PEAK_METHODS[method],
                                 threshold |-> NoThreshold]>>
                /\ mpc' = "returned"
    /\ m_i' = 1
    /\ UNCHANGED <<nonMethodVars, m_entry, m_data, methods, consensus>>

NextMethods ==
    \/ AdaptiveThreshold
    \/ MultiMethodStep
    \/ MultiMethodReturn
    \/ DetectPeaksComprehensive

SpecMethods == InitMethods /\ [][NextMethods]_vars

\* C12: on every entry point that takes a threshold method name, a name
\* that is not a known method ends the call with an exception that reaches
\* the caller; a call returns only when every name passed was known.
C12_UnknownMethodRaises ==
    mpc \in {"returned", "raised"} =>
        (mpc = "raised" <=>
            \E k \in 1..Len(methods) : methods[k] \notin KnownMethods(m_entry))


\* C20: the consensus multi_method_threshold returns for a non-empty list
\* of methods is the median of the thresholds of exactly those methods:
\* every method named contributes one threshold to the results, in order,
\* and the consensus is the median of those and of nothing else.
C20_ConsensusOfChosenMethods ==
    (m_entry = "multi_method_threshold" /\ mpc = "returned"
     /\ methods # <<>>) =>
        /\ Len(results) = Len(methods)
        /\ \A k \in 1..Len(methods) : results[k].method = methods[k]
        /\ LET q == Quantile([k \in 1..Len(results) |->
                                 InUnits(results[k].threshold)], 1, 2)
           IN  consensus = [num |-> q.num, den |-> q.den * ThresholdUnit]


(***************************************************************************)
(* Objects that outlive one recording: an AdaptiveFilterChain and an       *)
(* AdaptiveEventDetector (classifier loaded) receive one recording after   *)
(* another.  A recording is written as the characteristics the             *)
(* calibrations read from it; a filtered signal is written as the filters  *)
(* applied and the recording they were applied to.  Confidences are in     *)
(* hundredths.                                                             *)
(***************************************************************************)
MaxRuns == 3

Recordings ==
    [snr : {4, 7, 12}, motion_frequency : {1, 3},
     avg_conf : {50, 90}, avg_std : {0, 20}]

\* FilterCalibrator._recommend_filters
RecommendFilters(snr, motion_freq) ==
    <<"hampel">>
    \o (IF snr < 5 THEN <<"adaptive_kalman", "wiener">>
        ELSE IF snr < 10 THEN <<"adaptive_kalman", "adaptive_savgol">>
        ELSE <<"adaptive_ema", "adaptive_gaussian">>)
    \o (IF motion_freq > 2 THEN <<"adaptive_butterworth">> ELSE <<>>)

\* FilterCalibrator.calibrate
Calibrate(r) ==
    [snr |-> r.snr, motion_frequency |-> r.motion_frequency,
     recommended_filters |-> RecommendFilters(r.snr, r.motion_frequency)]

\* AdaptiveFilterChain._build_filter_chain
BuildFilterChain(calib) ==
    LET kept == SelectSeq(calib.recommended_filters,
                          LAMBDA n : n \in DOMAIN ADAPTIVE_FILTERS)
    IN  [k \in 1..Len(kept) |-> ADAPTIVE_FILTERS[kept[k]]]

\* AdaptiveEventDetector.calibrate: the statistics detect_events_adaptive
\* reads back
CalibrateDetector(r) == [mean |-> r.avg_conf, std |-> r.avg_std]

\* adaptive_threshold = max(0.3, avg_conf - 0.5 * avg_std)
AdaptiveConfidence(stats) ==
    LET t == stats.mean - stats.std \div 2
    IN  IF t > 30 THEN t ELSE 30

InitRuns ==
    /\ EventLayerIdle
    /\ ThresholdEngineIdle
    /\ ExtIdleExcept("runs")
    /\ calibration = <<>>
    /\ chain_filters = <<>>
    /\ calibration_stats = <<>>
    /\ recording = <<>>
    /\ filtered = <<>>
    /\ threshold_used = <<>>
    /\ n_runs = 0

nonRunVars == <<edvars, hystvars, cusumvars, filtervars, methodvars,
                fallbackvars, scoringvars, windowvars,
    biovars, adaptvars, segvars, jobvars>>

\* AdaptiveFilterChain.calibrate(signal_data)
CalibrateChain ==
    /\ n_runs < MaxRuns
    /\ \E r \in Recordings :
          /\ calibration' = <<Calibrate(r)>>
          /\ chain_filters' = BuildFilterChain(Calibrate(r))
          /\ recording' = <<r>>
    /\ n_runs' = n_runs + 1
    /\ UNCHANGED <<nonRunVars, calibration_stats, filtered, threshold_used>>

\* AdaptiveFilterChain.apply(data), auto_calibrate=True
ApplyChain ==
    /\ n_runs < MaxRuns
    /\ \E r \in Recordings :
          LET calib == IF calibration = <<>> THEN Calibrate(r)
                       ELSE calibration[1]
              built == IF calibration = <<>> THEN BuildFilterChain(calib)
                       ELSE chain_filters
          IN  /\ calibration' = <<calib>>
              /\ chain_filters' = built
              /\ filtered' = <<[filters |-> built, data |-> r]>>
              /\ recording' = <<r>>
    /\ n_runs' = n_runs + 1
    /\ UNCHANGED <<nonRunVars, calibration_stats, threshold_used>>

\* AdaptiveEventDetector.detect_events_adaptive(sequences)
DetectEventsAdaptive ==
    /\ n_runs < MaxRuns
    /\ \E r \in Recordings :
          LET stats == IF calibration_stats = <<>> THEN CalibrateDetector(r)
                       ELSE calibration_stats[1]
          IN  /\ calibration_stats' = <<stats>>
              /\ threshold_used' =
                    <<[threshold |-> AdaptiveConfidence(stats), data |-> r]>>
              /\ recording' = <<r>>
    /\ n_runs' = n_runs + 1
    /\ UNCHANGED <<nonRunVars, calibration, chain_filters, filtered>>

NextRuns == CalibrateChain \/ ApplyChain \/ DetectEventsAdaptive

SpecRuns == InitRuns /\ [][NextRuns]_vars

\* C13: what an analysis object returns for a recording is what a newly
\* constructed object returns for it: the filters applied are the ones the
\* recording's own calibration selects, and the confidence threshold is the
\* one its own statistics give, whatever was processed through the object
\* before.
C13_RunsIndependent ==
    /\ filtered # <<>> =>
          filtered[1].filters
            = BuildFilterChain(Calibrate(filtered[1].data))
    /\ threshold_used # <<>> =>
          threshold_used[1].threshold
            = AdaptiveConfidence(CalibrateDetector(threshold_used[1].data))


(***************************************************************************)
(* Detection without a classifier: detect_events of EventDetector with     *)
(* self.model None and of LSTMEngine with is_loaded False.  A batch of     *)
(* sequences is written as its per-sequence motion magnitudes.             *)
(***************************************************************************)
MaxBatch == 6

CATEGORIES == {"WRIST", "FINGER", "POSTURE", "STATE"}

FrameSteps == {1, 2}

MotionBatches == UNION {[1..k -> Velocities] : k \in 0..MaxBatch}

\* events = {'WRIST': [], 'FINGER': [], 'POSTURE': [], 'STATE': []} with the
\* list of one category filled in
EventsByCategory(category, evs) ==
    [c \in CATEGORIES |-> IF c = category THEN evs ELSE <<>>]

\* LSTMEngine._fallback_detection: first index at or after j that is not
\* high motion
RECURSIVE HighMotionEnd(_, _)
HighMotionEnd(mm, j) ==
    IF j < Len(mm) /\ AbovePercentile75(mm[j + 1], mm)
    THEN HighMotionEnd(mm, j + 1)
    ELSE j

\* LSTMEngine._fallback_detection: the while loop from index k on, with
\* frame_indices[k] = k * step + SEQUENCE_LENGTH // 2
RECURSIVE LstmFallbackFrom(_, _, _)
LstmFallbackFrom(mm, step, k) ==
    IF k >= Len(mm) THEN <<>>
    ELSE IF ~AbovePercentile75(mm[k + 1], mm)
    THEN LstmFallbackFrom(mm, step, k + 1)
    ELSE LET j           == HighMotionEnd(mm, k)
             start_frame == k * step + SEQUENCE_LENGTH \div 2
             end_frame   == (j - 1) * step + SEQUENCE_LENGTH \div 2
             frames      == end_frame - start_frame + 1
             ev == [ category    |-> "STATE",
                     event_type  |-> "motion_detected",
                     confidence  |-> [num |-> 7, den |-> 10],
                     frame_start |-> start_frame,
                     frame_end   |-> end_frame,
                     duration_seconds |-> [num |-> frames, den |-> DEFAULT_FPS] ]
         IN  (IF 10 * frames >= DEFAULT_FPS THEN <<ev>> ELSE <<>>)
             \o LstmFallbackFrom(mm, step, j)

\* EventDetector._fallback_detection: the event as the dictionary holds it
GenericWristEvents(vel) ==
    LET evs == FallbackEvents(vel)
    IN  [k \in 1..Len(evs) |->
            [ category    |-> "WRIST",
              event_type  |-> "motion_detected",
              confidence  |-> evs[k].confidence,
              frame_start |-> evs[k].start_frame,
              frame_end   |-> evs[k].end_frame,
              duration_seconds |->
                  [num |-> evs[k].duration_frames, den |-> DEFAULT_FPS] ]]

InitFallback ==
    /\ EventLayerIdle
    /\ ThresholdEngineIdle
    /\ ExtIdleExcept("fallback")
    /\ detector \in Engines
    /\ loaded = FALSE
    /\ motion_magnitude \in MotionBatches
    /\ frame_step \in FrameSteps
    /\ fb_result = <<>>
    /\ fbpc = "start"

nonFallbackVars == <<edvars, hystvars, cusumvars, filtervars, methodvars,
                     runvars, scoringvars, windowvars,
    biovars, adaptvars, segvars, jobvars>>

\* EventDetector.detect_events with self.model None
EventDetectorFallback ==
    /\ fbpc = "start"
    /\ detector = "EventDetector"
    /\ ~loaded
    /\ fb_result' = EventsByCategory("WRIST", GenericWristEvents(motion_magnitude))
    /\ fbpc' = "done"
    /\ UNCHANGED <<nonFallbackVars, detector, loaded, motion_magnitude,
                   frame_step>>

\* LSTMEngine.detect_events with is_loaded False.  On an empty batch
\* np.percentile is asked for a percentile of no data: depending on the
\* numpy release it raises IndexError or yields nan (and then no event).
LstmFallback ==
    /\ fbpc = "start"
    /\ detector = "LSTMEngine"
    /\ ~loaded
    /\ IF Len(motion_magnitude) = 0
       THEN \/ /\ fbpc' = "raised"
               /\ UNCHANGED fb_result
            \/ /\ fbpc' = "done"
               /\ fb_result' = EventsByCategory("STATE", <<>>)
       ELSE /\ fbpc' = "done"
            /\ fb_result' =
                 EventsByCategory("STATE",
                     LstmFallbackFrom(motion_magnitude, frame_step, 0))
    /\ UNCHANGED <<nonFallbackVars, detector, loaded, motion_magnitude,
                   frame_step>>

NextFallback == EventDetectorFallback \/ LstmFallback

SpecFallback == InitFallback /\ [][NextFallback]_vars

\* C14: without a classifier, detect_events ends by returning, never by
\* raising; what it returns has every category key, and every event in it
\* is a generic motion event whose confidence is below the highest a
\* classifier-backed event can have.
C14_FallbackDegrades ==
    (fbpc \in {"done", "raised"} /\ ~loaded) =>
        /\ fbpc = "done"
        /\ DOMAIN fb_result = CATEGORIES
        /\ \A c \in CATEGORIES : \A k \in 1..Len(fb_result[c]) :
              /\ fb_result[c][k].event_type = "motion_detected"
              /\ fb_result[c][k].confidence.num
                   < fb_result[c][k].confidence.den


(***************************************************************************)
(* Clinical scoring: ReferenceRange, SeverityScorer and                    *)
(* ClinicalScoringEngine.score_all.  Biomarker values and the bounds of a  *)
(* reference range are in thousandths; a score is an exact fraction in     *)
(* lowest terms.  The texts score_all attaches (interpretations, summary,  *)
(* recommendations) are left out.                                          *)
(***************************************************************************)
MaxMarkers == 2

RefRange(nmin, nmax, mild, moderate, severe, hiw) ==
    [ normal_min         |-> nmin,
      normal_max         |-> nmax,
      mild_threshold     |-> mild,
      moderate_threshold |-> moderate,
      severe_threshold   |-> severe,
      higher_is_worse    |-> hiw ]

CLINICAL_REFERENCE_RANGES ==
    "sparc" :> RefRange(-2500, -1500, -3000, -4000, -5000, FALSE)
    @@ "ldljv" :> RefRange(-6000, -4000, -6500, -7500, -9000, FALSE)
    @@ "ldlja" :> RefRange(-6000, -4000, -6500, -7500, -9000, FALSE)
    @@ "normalized_jerk" :> RefRange(0, 50000, 100000, 200000, 400000, TRUE)
    @@ "tremor_frequency" :> RefRange(0, 3000, 5000, 7000, 10000, TRUE)
    @@ "tremor_amplitude" :> RefRange(0, 5, 15, 30, 50, TRUE)
    @@ "tremor_severity" :> RefRange(0, 100, 300, 500, 800, TRUE)
    @@ "q_factor" :> RefRange(0, 2000, 5000, 10000, 20000, TRUE)
    @@ "amplitude_decrement" :> RefRange(800, 1200, 600, 400, 200, FALSE)
    @@ "velocity_reduction" :> RefRange(800, 1200, 600, 400, 200, FALSE)
    @@ "slowness_score" :> RefRange(0, 500, 1000, 2000, 4000, TRUE)
    @@ "hesitation_index" :> RefRange(0, 200, 500, 1000, 2000, TRUE)
    @@ "performance_degradation_rate" :> RefRange(-100, 100, -300, -500, -700, FALSE)
    @@ "velocity_decay" :> RefRange(-100, 100, -300, -500, -700, FALSE)
    @@ "rest_pause_frequency" :> RefRange(0, 200, 500, 1000, 2000, TRUE)
    @@ "amplitude_asymmetry" :> RefRange(-100, 100, 200, 400, 600, TRUE)
    @@ "velocity_asymmetry" :> RefRange(-100, 100, 200, 400, 600, TRUE)
    @@ "coordination_lag" :> RefRange(-50, 50, 100, 200, 400, TRUE)
    @@ "rom_index_finger" :> RefRange(800, 1500, 600, 400, 200, FALSE)
    @@ "rom_thumb" :> RefRange(600, 1200, 400, 300, 150, FALSE)

\* ClinicalInterpreter.DOMAINS
DOMAINS ==
    "smoothness" :> {"sparc", "ldljv", "ldlja", "normalized_jerk"}
    @@ "tremor" :> {"tremor_frequency", "tremor_amplitude",
                    "tremor_severity", "q_factor"}
    @@ "bradykinesia" :> {"amplitude_decrement", "velocity_reduction",
                          "slowness_score", "hesitation_index"}
    @@ "fatigue" :> {"performance_degradation_rate", "velocity_decay",
                     "rest_pause_frequency"}
    @@ "asymmetry" :> {"amplitude_asymmetry", "velocity_asymmetry",
                       "coordination_lag"}
    @@ "range_of_motion" :> {"rom_index_finger", "rom_thumb"}

\* domain_weights of score_all, doubled
DomainWeight2 ==
    "smoothness" :> 3
    @@ "tremor" :> 4
    @@ "bradykinesia" :> 4
    @@ "fatigue" :> 2
    @@ "asymmetry" :> 3
    @@ "range_of_motion" :> 2

\* SeverityLevel and its values
SeverityRank ==
    "Normal" :> 0 @@ "Mild" :> 1 @@ "Moderate" :> 2 @@ "Severe" :> 3

RECURSIVE GCD(_, _)
GCD(a, b) == IF b = 0 THEN a ELSE GCD(b, a % b)

\* a fraction in lowest terms with a positive denominator
Frac(n, dd) ==
    LET g == GCD(Abs(n), Abs(dd))
        sgn == IF dd < 0 THEN -1 ELSE 1
    IN  [num |-> sgn * (n \div g), den |-> sgn * (dd \div g)]

AddFrac(a, b) == Frac(a.num * b.den + b.num * a.den, a.den * b.den)
ScaleFrac(k, a) == Frac(k * a.num, a.den)
FracGeq(a, k) == a.num >= k * a.den

\* ReferenceRange.classify
classify(ref, value) ==
    IF ref.higher_is_worse
    THEN IF value <= ref.normal_max THEN "Normal"
         ELSE IF value <= ref.mild_threshold THEN "Mild"
         ELSE IF value <= ref.moderate_threshold THEN "Moderate"
         ELSE "Severe"
    ELSE IF value >= ref.normal_min THEN "Normal"
         ELSE IF value >= ref.mild_threshold THEN "Mild"
         ELSE IF value >= ref.moderate_threshold THEN "Moderate"
         ELSE "Severe"

\* a percentile score that interpolates past the severe threshold
get_percentile_score_Unclamped(ref, value) ==
    IF ref.higher_is_worse
    THEN IF value <= ref.normal_max THEN Frac(100, 1)
         ELSE Frac(100 * (ref.severe_threshold - value),
                   ref.severe_threshold - ref.normal_max)
    ELSE IF value >= ref.normal_min THEN Frac(100, 1)
         ELSE Frac(100 * (value - ref.severe_threshold),
                   ref.normal_min - ref.severe_threshold)

\* a percentile score whose interpolation runs the wrong way
get_percentile_score_Rising(ref, value) ==
    IF ref.higher_is_worse
    THEN IF value <= ref.normal_max THEN Frac(100, 1)
         ELSE IF value >= ref.severe_threshold THEN Frac(0, 1)
         ELSE Frac(100 * (value - ref.normal_max),
                   ref.severe_threshold - ref.normal_max)
    ELSE IF value >= ref.normal_min THEN Frac(100, 1)
         ELSE IF value <= ref.severe_threshold THEN Frac(0, 1)
         ELSE Frac(100 * (value - ref.severe_threshold),
                   ref.normal_min - ref.severe_threshold)

\* ReferenceRange.get_percentile_score:
\* 100 * (1 - (value - normal_max) / range_span) is
\* 100 * (severe_threshold - value) / range_span
get_percentile_score(ref, value) ==
    IF ref.higher_is_worse
    THEN IF value <= ref.normal_max THEN Frac(100, 1)
         ELSE IF value >= ref.severe_threshold THEN Frac(0, 1)
         ELSE Frac(100 * (ref.severe_threshold - value),
                   ref.severe_threshold - ref.normal_max)
    ELSE IF value >= ref.normal_min THEN Frac(100, 1)
         ELSE IF value <= ref.severe_threshold THEN Frac(0, 1)
         ELSE Frac(100 * (value - ref.severe_threshold),
                   ref.normal_min - ref.severe_threshold)

\* 'asymmetry' in name.lower() or 'lag' in name.lower()
UsesAbsoluteValue(name) ==
    name \in {"amplitude_asymmetry", "velocity_asymmetry", "coordination_lag"}

\* SeverityScorer.score_biomarker
score_biomarker(name, value) ==
    IF name \notin DOMAIN CLINICAL_REFERENCE_RANGES
    THEN [ name |-> name, value |-> value, severity |-> "Normal",
           percentile_score |-> Frac(75, 1) ]
    ELSE LET ref == CLINICAL_REFERENCE_RANGES[name]
             v   == IF UsesAbsoluteValue(name) THEN Abs(value) ELSE value
         IN  [ name |-> name, value |-> v, severity |-> classify(ref, v),
               percentile_score |-> get_percentile_score(ref, v) ]

\* SeverityScorer.score_biomarkers
score_biomarkers(bm) == [n \in DOMAIN bm |-> score_biomarker(n, bm[n])]

\* weight = 1.0 + (3 - sb.severity.value) * 0.5, doubled
SeverityWeight2(sev) == 2 + (3 - SeverityRank[sev])

\* sum of w(n) * percentile_score over the names in S, w(n) the doubled
\* weight (1.0 + (3 - severity) * 0.5) * 2
RECURSIVE WeightedScores(_, _)
WeightedScores(scored, S) ==
    IF S = {} THEN Frac(0, 1)
    ELSE LET n == CHOOSE x \in S : TRUE
             w == SeverityWeight2(scored[n].severity)
         IN  AddFrac(ScaleFrac(w, scored[n].percentile_score),
                     WeightedScores(scored, S \ {n}))

RECURSIVE WeightTotal(_, _)
WeightTotal(scored, S) ==
    IF S = {} THEN 0
    ELSE LET n == CHOOSE x \in S : TRUE
         IN  SeverityWeight2(scored[n].severity)
             + WeightTotal(scored, S \ {n})

\* the same sums with the weight growing with the severity
RECURSIVE WeightedScores_SevereHeavier(_, _)
WeightedScores_SevereHeavier(scored, S) ==
    IF S = {} THEN Frac(0, 1)
    ELSE LET n == CHOOSE x \in S : TRUE
             w == 2 + SeverityRank[scored[n].severity]
         IN  AddFrac(ScaleFrac(w, scored[n].percentile_score),
                     WeightedScores_SevereHeavier(scored, S \ {n}))

RECURSIVE WeightTotal_SevereHeavier(_, _)
WeightTotal_SevereHeavier(scored, S) ==
    IF S = {} THEN 0
    ELSE LET n == CHOOSE x \in S : TRUE
         IN  2 + SeverityRank[scored[n].severity]
             + WeightTotal_SevereHeavier(scored, S \ {n})

\* a domain score that weighs severe findings more
compute_domain_score_SevereHeavier(scored, domain_biomarkers) ==
    LET relevant == DOMAIN scored \cap domain_biomarkers
    IN  IF relevant = {} THEN Frac(100, 1)
        ELSE LET t == WeightedScores_SevereHeavier(scored, relevant)
             IN  Frac(t.num,
                      t.den * WeightTotal_SevereHeavier(scored, relevant))

\* SeverityScorer.compute_domain_score
compute_domain_score(scored, domain_biomarkers) ==
    LET relevant == DOMAIN scored \cap domain_biomarkers
    IN  IF relevant = {} THEN Frac(100, 1)
        ELSE LET t == WeightedScores(scored, relevant)
             IN  Frac(t.num, t.den * WeightTotal(scored, relevant))

\* a classification with exclusive lower bounds
classify_severity_Exclusive(sc) ==
    IF sc.num > 85 * sc.den THEN "Normal"
    ELSE IF sc.num > 65 * sc.den THEN "Mild"
    ELSE IF sc.num > 40 * sc.den THEN "Moderate"
    ELSE "Severe"

\* SeverityScorer.classify_severity
classify_severity(sc) ==
    IF FracGeq(sc, 85) THEN "Normal"
    ELSE IF FracGeq(sc, 65) THEN "Mild"
    ELSE IF FracGeq(sc, 40) THEN "Moderate"
    ELSE "Severe"

\* np.average(weighted_scores, weights=weights) over the domains
RECURSIVE DomainTotal(_, _)
DomainTotal(ds, S) ==
    IF S = {} THEN Frac(0, 1)
    ELSE LET dm == CHOOSE x \in S : TRUE
         IN  AddFrac(ScaleFrac(DomainWeight2[dm], ds[dm]),
                     DomainTotal(ds, S \ {dm}))

RECURSIVE DomainWeightTotal(_)
DomainWeightTotal(S) ==
    IF S = {} THEN 0
    ELSE LET dm == CHOOSE x \in S : TRUE
         IN  DomainWeight2[dm] + DomainWeightTotal(S \ {dm})

OverallScore(ds) ==
    LET t == DomainTotal(ds, DOMAIN ds)
    IN  Frac(t.num, t.den * DomainWeightTotal(DOMAIN ds))

\* Inputs: up to MaxMarkers biomarkers, each known one at the edge of its
\* normal range or at one of its three thresholds.
UnknownMarkers == {"grip_strength"}

MarkerNames == DOMAIN CLINICAL_REFERENCE_RANGES \cup UnknownMarkers

MarkerValues(name) ==
    IF name \notin DOMAIN CLINICAL_REFERENCE_RANGES THEN {0, 1000}
    ELSE LET ref == CLINICAL_REFERENCE_RANGES[name]
         IN  { IF ref.higher_is_worse THEN ref.normal_max ELSE ref.normal_min,
               ref.mild_threshold, ref.moderate_threshold,
               ref.severe_threshold }

RECURSIVE NameSets(_)
NameSets(n) ==
    IF n = 0 THEN {{}}
    ELSE LET smaller == NameSets(n - 1)
         IN  smaller \cup {S \cup {x} : S \in smaller, x \in MarkerNames}

RECURSIVE DictsOver(_)
DictsOver(S) ==
    IF S = {} THEN {<<>>}
    ELSE LET n == CHOOSE x \in S : TRUE
         IN  {(n :> v) @@ f : v \in MarkerValues(n), f \in DictsOver(S \ {n})}

BiomarkerDicts(n) == UNION {DictsOver(S) : S \in NameSets(n)}

InitScoring ==
    /\ EventLayerIdle
    /\ ThresholdEngineIdle
    /\ ExtIdleExcept("scoring")
    /\ biomarkers \in BiomarkerDicts(MaxMarkers)
    /\ scored_biomarkers = <<>>
    /\ domain_scores = <<>>
    /\ overall_score = <<>>
    /\ overall_severity = "none"
    /\ score = <<>>
    /\ severity = "none"
    /\ ref_name = "none"
    /\ ref_values = <<>>
    /\ percentiles = <<>>
    /\ log = <<>>
    /\ spc = "start"

nonScoringVars == <<edvars, hystvars, cusumvars, filtervars, methodvars,
                    runvars, fallbackvars, windowvars,
    biovars, adaptvars, segvars, jobvars>>

\* ClinicalScoringEngine.score_all(biomarkers); nothing on the way writes a
\* warning.
ScoreAll ==
    /\ spc = "start"
    /\ LET scored == score_biomarkers(biomarkers)
           ds     == [dm \in DOMAIN DOMAINS |->
                         compute_domain_score(scored, DOMAINS[dm])]
       IN  /\ scored_biomarkers' = scored
           /\ domain_scores' = ds
           /\ overall_score' = OverallScore(ds)
           /\ overall_severity' = classify_severity(OverallScore(ds))
    /\ spc' = "done"
    /\ UNCHANGED <<nonScoringVars, biomarkers, score, severity, ref_name,
                   ref_values, percentiles, log>>

NextScoring == ScoreAll

SpecScoring == InitScoring /\ [][NextScoring]_vars

\* C15: a biomarker without a reference range does not stop score_all: it
\* is scored with severity Normal, a warning about it is written, and the
\* composite score and severity are returned.
C15_UnknownBiomarkerNeutral ==
    (spc = "done"
     /\ \E n \in DOMAIN biomarkers : n \notin DOMAIN CLINICAL_REFERENCE_RANGES)
    =>  /\ \A n \in DOMAIN biomarkers :
              n \notin DOMAIN CLINICAL_REFERENCE_RANGES =>
                  scored_biomarkers[n].severity = "Normal"
        /\ overall_severity \in DOMAIN SeverityRank
        /\ overall_score.num >= 0
        /\ log # <<>>


\* the weight 1 + (3 - rank) * 0.5 of a finding, doubled: 2.5, 2, 1.5, 1
StatedWeight2(sev) ==
    CASE sev = "Normal" -> 5
      [] sev = "Mild" -> 4
      [] sev = "Moderate" -> 3
      [] sev = "Severe" -> 2

RECURSIVE StatedWeightedSum(_)
StatedWeightedSum(S) ==
    IF S = {} THEN Frac(0, 1)
    ELSE LET n == CHOOSE x \in S : TRUE
         IN  AddFrac(ScaleFrac(StatedWeight2(scored_biomarkers[n].severity),
                               scored_biomarkers[n].percentile_score),
                     StatedWeightedSum(S \ {n}))

RECURSIVE StatedWeightTotal(_)
StatedWeightTotal(S) ==
    IF S = {} THEN 0
    ELSE LET n == CHOOSE x \in S : TRUE
         IN  StatedWeight2(scored_biomarkers[n].severity)
             + StatedWeightTotal(S \ {n})

C26_SevereWeighsMore ==
    spc = "done" =>
        \A dm \in DOMAIN DOMAINS :
            LET rel == DOMAIN scored_biomarkers \cap DOMAINS[dm]
            IN  \A a, b \in rel :
                   LET sa == scored_biomarkers[a]
                       sb == scored_biomarkers[b]
                   IN  SeverityRank[sa.severity] > SeverityRank[sb.severity]
                       => /\ SeverityWeight2(sa.severity)
                               > SeverityWeight2(sb.severity)
                          /\ (rel = {a, b}
                               /\ sa.percentile_score.num * sb.percentile_score.den
                                    < sb.percentile_score.num * sa.percentile_score.den)
                             => 2 * domain_scores[dm].num
                                    * sa.percentile_score.den * sb.percentile_score.den
                                  < domain_scores[dm].den
                                    * (sa.percentile_score.num * sb.percentile_score.den
                                       + sb.percentile_score.num * sa.percentile_score.den)

(***************************************************************************)
(* SeverityScorer.classify_severity on its own: composite scores in        *)
(* thousandths.                                                            *)
(***************************************************************************)
ScoreStep == 500

CompositeScores ==
    {[num |-> n, den |-> 1000] :
        n \in {k * ScoreStep : k \in 0..(100000 \div ScoreStep)}
              \cup {39999, 64999, 84999}}

InitSeverity ==
    /\ EventLayerIdle
    /\ ThresholdEngineIdle
    /\ ExtIdleExcept("scoring")
    /\ biomarkers = <<>>
    /\ scored_biomarkers = <<>>
    /\ domain_scores = <<>>
    /\ overall_score = <<>>
    /\ overall_severity = "none"
    /\ score \in CompositeScores
    /\ severity = "none"
    /\ ref_name = "none"
    /\ ref_values = <<>>
    /\ percentiles = <<>>
    /\ log = <<>>
    /\ spc = "classify"

\* SeverityScorer.classify_severity(score)
ClassifySeverity ==
    /\ spc = "classify"
    /\ severity' = classify_severity(score)
    /\ spc' = "done"
    /\ UNCHANGED <<nonScoringVars, biomarkers, scored_biomarkers,
                   domain_scores, overall_score, overall_severity, score,
                   ref_name, ref_values, percentiles, log>>

NextSeverity == ClassifySeverity

SpecSeverity == InitSeverity /\ [][NextSeverity]_vars

\* C16: a composite score of at least 85 is Normal, of at least 65 and below
\* 85 Mild, of at least 40 and below 65 Moderate, below 40 Severe; so 85 is
\* Normal, 84.999 Mild, 65 Mild and 64.999 Moderate.
C16_SeverityBuckets ==
    severity # "none" =>
        /\ severity = "Normal" <=> score.num >= 85 * score.den
        /\ severity = "Mild" <=>
              (score.num >= 65 * score.den /\ score.num < 85 * score.den)
        /\ severity = "Moderate" <=>
              (score.num >= 40 * score.den /\ score.num < 65 * score.den)
        /\ severity = "Severe" <=> score.num < 40 * score.den
        /\ score = [num |-> 85000, den |-> 1000] => severity = "Normal"
        /\ score = [num |-> 84999, den |-> 1000] => severity = "Mild"
        /\ score = [num |-> 65000, den |-> 1000] => severity = "Mild"
        /\ score = [num |-> 64999, den |-> 1000] => severity = "Moderate"

\* exactly 65 was classified, as Mild
C16_Witness ==
    /\ spc = "done"
    /\ score = [num |-> 65000, den |-> 1000]
    /\ severity = "Mild"

(***************************************************************************)
(* ReferenceRange.get_percentile_score on its own: one reference range,    *)
(* asked for two values.                                                   *)
(***************************************************************************)
ProbeSteps == 8

\* values from below the range's smallest bound to above its largest
ProbeValues(ref) ==
    LET bnds == {ref.normal_min, ref.normal_max, ref.mild_threshold,
                 ref.moderate_threshold, ref.severe_threshold}
        lo   == CHOOSE x \in bnds : \A y \in bnds : x <= y
        hi   == CHOOSE x \in bnds : \A y \in bnds : x >= y
        step == (hi - lo) \div ProbeSteps
    IN  {lo - step + k * step : k \in 0..(ProbeSteps + 2)} \cup bnds

InitPercentile ==
    /\ EventLayerIdle
    /\ ThresholdEngineIdle
    /\ ExtIdleExcept("scoring")
    /\ biomarkers = <<>>
    /\ scored_biomarkers = <<>>
    /\ domain_scores = <<>>
    /\ overall_score = <<>>
    /\ overall_severity = "none"
    /\ score = <<>>
    /\ severity = "none"
    /\ ref_name \in DOMAIN CLINICAL_REFERENCE_RANGES
    /\ \E v1, v2 \in ProbeValues(CLINICAL_REFERENCE_RANGES[ref_name]) :
          /\ v1 <= v2
          /\ ref_values = <<v1, v2>>
    /\ percentiles = <<>>
    /\ log = <<>>
    /\ spc = "probe"

\* ref.get_percentile_score(v1), ref.get_percentile_score(v2)
GetPercentileScores ==
    /\ spc = "probe"
    /\ LET ref == CLINICAL_REFERENCE_RANGES[ref_name]
       IN  percentiles' = <<get_percentile_score(ref, ref_values[1]),
                            get_percentile_score(ref, ref_values[2])>>
    /\ spc' = "done"
    /\ UNCHANGED <<nonScoringVars, biomarkers, scored_biomarkers,
                   domain_scores, overall_score, overall_severity, score,
                   severity, ref_name, ref_values, log>>

NextPercentile == GetPercentileScores

SpecPercentile == InitPercentile /\ [][NextPercentile]_vars

\* C17: for a reference range with higher_is_worse the percentile score
\* never rises with the value: v1 <= v2 gives score(v1) >= score(v2), in the
\* normal region, in the interpolation region and beyond the severe
\* threshold.
C17_PercentileNonIncreasing ==
    (percentiles # <<>>
     /\ CLINICAL_REFERENCE_RANGES[ref_name].higher_is_worse
     /\ ref_values[1] <= ref_values[2])
    =>  percentiles[1].num * percentiles[2].den
          >= percentiles[2].num * percentiles[1].den

\* two values inside the interpolation region, the larger scoring less
C17_Witness ==
    /\ percentiles # <<>>
    /\ CLINICAL_REFERENCE_RANGES[ref_name].higher_is_worse
    /\ ref_values[1] < ref_values[2]
    /\ percentiles[1].num < 100 * percentiles[1].den
    /\ percentiles[2].num > 0
    /\ percentiles[1].num * percentiles[2].den
         > percentiles[2].num * percentiles[1].den

\* C22: for every reference range of the table and every value the
\* percentile score lies in [0, 100]; it is 100 at and inside the normal
\* boundary and 0 at and beyond the severe threshold, in both directions of
\* higher_is_worse.
C22_PercentileWithinBounds ==
    percentiles # <<>> =>
        LET ref == CLINICAL_REFERENCE_RANGES[ref_name]
        IN  \A k \in 1..2 :
               LET v == ref_values[k]
                   p == percentiles[k]
               IN  /\ p.den > 0
                   /\ 0 <= p.num
                   /\ p.num <= 100 * p.den
                   /\ (ref.higher_is_worse /\ v <= ref.normal_max)
                         => p = [num |-> 100, den |-> 1]
                   /\ (ref.higher_is_worse /\ v >= ref.severe_threshold)
                         => p = [num |-> 0, den |-> 1]
                   /\ (~ref.higher_is_worse /\ v >= ref.normal_min)
                         => p = [num |-> 100, den |-> 1]
                   /\ (~ref.higher_is_worse /\ v <= ref.severe_threshold)
                         => p = [num |-> 0, den |-> 1]

\* a lower-is-worse range asked for a value beyond its severe threshold and
\* for one inside the interpolation region
C22_Witness ==
    /\ percentiles # <<>>
    /\ ~CLINICAL_REFERENCE_RANGES[ref_name].higher_is_worse
    /\ ref_values[1] < CLINICAL_REFERENCE_RANGES[ref_name].severe_threshold
    /\ percentiles[1] = [num |-> 0, den |-> 1]
    /\ percentiles[2].num > 0
    /\ percentiles[2].num < 100 * percentiles[2].den


(***************************************************************************)
(* Windowed filters on a one-dimensional signal: ButterworthFilter and     *)
(* BandpassFilter (the guard ChebyshevFilter, BesselFilter and             *)
(* EllipticFilter share), MovingAverageFilter, MedianFilter and            *)
(* SavitzkyGolayFilter.  Samples are integers and an output sample is an   *)
(* exact fraction.  What scipy's filtfilt and savgol_filter compute on a   *)
(* signal that is long enough is left open: any signal of the same length. *)
(***************************************************************************)
MaxWinLen == 6

Samples == {0, 1}

WindowedFilters ==
    {"ButterworthFilter", "BandpassFilter", "MovingAverageFilter",
     "MedianFilter", "SavitzkyGolayFilter"}

\* order of an IIR design; window, kernel_size, window_length otherwise
WindowOptions(kind) ==
    IF kind \in {"ButterworthFilter", "BandpassFilter"} THEN {1}
    ELSE IF kind = "MovingAverageFilter" THEN {2, 3}
    ELSE {3, 5}

WindowSignals == UNION {[1..n -> Samples] : n \in 1..MaxWinLen}

\* the samples as they were passed
Unchanged(d) == [k \in 1..Len(d) |-> Frac(d[k], 1)]

\* len(self.a) = len(self.b): order + 1 for a low-pass design, 2 * order + 1
\* for a band-pass design
CoefficientCount(kind, order) ==
    IF kind = "BandpassFilter" THEN 2 * order + 1 ELSE order + 1

\* the shortest signal the filter is meant for
RequiredWindow(kind, w) ==
    IF kind \in {"ButterworthFilter", "BandpassFilter"}
    THEN 3 * CoefficientCount(kind, w)
    ELSE w

\* data[k] of a 0-based index, zero outside the signal
Padded(d, k) == IF k >= 0 /\ k < Len(d) THEN d[k + 1] ELSE 0

\* np.convolve(data, np.ones(w) / w, mode='same')
MovingAverage(d, w) ==
    LET c == (w - 1) \div 2
    IN  [k \in 1..Len(d) |->
            Frac(SumSeq([m \in 1..w |-> Padded(d, (k - 1) + c - (m - 1))]), w)]

\* signal.medfilt(data, kernel_size): the median of the window centred on
\* each sample, the signal zero-padded at both ends
MedFilt(d, kernel_size) ==
    LET h == kernel_size \div 2
    IN  [k \in 1..Len(d) |->
            LET win == [m \in 1..kernel_size |-> Padded(d, (k - 1) - h + (m - 1))]
            IN  Frac(SortSeq(win, LAMBDA a, b : a < b)[h + 1], 1)]

InitWindow ==
    /\ EventLayerIdle
    /\ ThresholdEngineIdle
    /\ ExtIdleExcept("window")
    /\ filter_kind \in WindowedFilters
    /\ window \in WindowOptions(filter_kind)
    /\ signal_in \in WindowSignals
    /\ signal_out = <<>>
    /\ wpc = "start"

nonWindowVars == <<edvars, hystvars, cusumvars, filtervars, methodvars,
                   runvars, fallbackvars, scoringvars,
    biovars, adaptvars, segvars, jobvars>>

\* ButterworthFilter.apply, BandpassFilter.apply
IirApply ==
    /\ wpc = "start"
    /\ filter_kind \in {"ButterworthFilter", "BandpassFilter"}
    /\ IF Len(signal_in) < 3 * CoefficientCount(filter_kind, window)
       THEN signal_out' = Unchanged(signal_in)
       ELSE \E y \in [1..Len(signal_in) -> Samples] :
               signal_out' = Unchanged(y)
    /\ wpc' = "done"
    /\ UNCHANGED <<nonWindowVars, filter_kind, window, signal_in>>

\* MovingAverageFilter.apply
MovingAverageApply ==
    /\ wpc = "start"
    /\ filter_kind = "MovingAverageFilter"
    /\ signal_out' = IF Len(signal_in) < window THEN Unchanged(signal_in)
                     ELSE MovingAverage(signal_in, window)
    /\ wpc' = "done"
    /\ UNCHANGED <<nonWindowVars, filter_kind, window, signal_in>>

\* MedianFilter.apply: no test of the length
MedianApply ==
    /\ wpc = "start"
    /\ filter_kind = "MedianFilter"
    /\ signal_out' = MedFilt(signal_in, window)
    /\ wpc' = "done"
    /\ UNCHANGED <<nonWindowVars, filter_kind, window, signal_in>>

\* SavitzkyGolayFilter.apply
SavitzkyGolayApply ==
    /\ wpc = "start"
    /\ filter_kind = "SavitzkyGolayFilter"
    /\ IF Len(signal_in) < window
       THEN signal_out' = Unchanged(signal_in)
       ELSE \E y \in [1..Len(signal_in) -> Samples] :
               signal_out' = Unchanged(y)
    /\ wpc' = "done"
    /\ UNCHANGED <<nonWindowVars, filter_kind, window, signal_in>>

NextWindow ==
    \/ IirApply
    \/ MovingAverageApply
    \/ MedianApply
    \/ SavitzkyGolayApply

SpecWindow == InitWindow /\ [][NextWindow]_vars

\* C19: a windowed filter applied to a signal shorter than the window it
\* needs returns the signal as it was passed, sample for sample and of the
\* same length.
C19_ShortSignalUnchanged ==
    (wpc = "done" /\ Len(signal_in) < RequiredWindow(filter_kind, window))
    =>  signal_out = Unchanged(signal_in)

(***************************************************************************)
(* BiomarkerCalculator: the length tests of its methods.  A signal is      *)
(* written as its number of samples; what a method computes from a signal  *)
(* that passes its length test is left open between a number and NaN (the  *)
(* later guards against degenerate values).  The two signals of a          *)
(* bilateral method have the same length.                                  *)
(***************************************************************************)
MaxSamples == 12

\* self.fs
BiomarkerFs == 30

\* window_samples = int(window_duration * self.fs), window_duration = 1.0
window_samples == 1 * BiomarkerFs

\* the length below which a method returns np.nan at once;
\* compute_asymmetry_index has no test, np.mean of no values is nan
MinSamples ==
    "compute_sparc" :> 4
    @@ "compute_ldljv" :> 4
    @@ "compute_ldlja" :> 4
    @@ "compute_normalized_jerk" :> 4
    @@ "compute_amplitude_decrement" :> 3
    @@ "compute_velocity_reduction" :> 3
    @@ "compute_hesitation_index" :> 2
    @@ "compute_performance_degradation" :> 3
    @@ "compute_consistency_decline" :> 5 * 2
    @@ "compute_asymmetry_index" :> 1
    @@ "compute_coordination_lag" :> 10
    @@ "compute_phase_coherence" :> 10
    @@ "compute_q_factor" :> 10
    @@ "compute_tremor_stability" :> window_samples * 2
    @@ "compute_amplitude_variability" :> 10
    @@ "compute_frequency_drift" :> window_samples * 3

GroupMethods ==
    {"compute_smoothness_metrics", "compute_bradykinesia_metrics",
     "compute_fatigue_metrics", "compute_asymmetry_metrics",
     "compute_tremor_regularity_metrics"}

SampleCounts ==
    0..MaxSamples
    \cup {window_samples * 2 - 1, window_samples * 2,
          window_samples * 3 - 1, window_samples * 3}

\* what a single-metric method can return for n samples
ScalarOutcomes(method, n) ==
    IF n < MinSamples[method] THEN {"nan"}
    ELSE IF method \in {"compute_hesitation_index", "compute_asymmetry_index"}
    THEN {"value"}
    ELSE {"nan", "value"}

\* np.gradient needs at least edge_order + 1 = 2 samples and raises
\* ValueError otherwise
GradientRaises(n) == n < 2

\* the record types a group method returns, as field -> outcome
FieldsOver(fields, n) ==
    {f \in [DOMAIN fields -> {"nan", "value"}] :
        \A k \in DOMAIN fields : f[k] \in ScalarOutcomes(fields[k], n)}

InitBiomarkers ==
    /\ EventLayerIdle
    /\ ThresholdEngineIdle
    /\ ExtIdleExcept("biomarkers")
    /\ bm_method \in DOMAIN MinSamples \cup GroupMethods
    /\ bm_len \in SampleCounts
    /\ bm_velocity \in BOOLEAN
    /\ bm_method \in DOMAIN MinSamples => ~bm_velocity
    /\ bm_cycles \in 0..MaxSamples
    /\ IF bm_method \in {"compute_bradykinesia_metrics",
                         "compute_fatigue_metrics"}
       THEN /\ bm_cycles < bm_len \/ bm_cycles = 0
            /\ bm_len >= 2 => bm_cycles >= 1
       ELSE bm_cycles = 0
    /\ bm_result = <<>>
    /\ bpc = "start"

nonBiomarkerVars == <<edvars, hystvars, cusumvars, filtervars, methodvars,
                      runvars, fallbackvars, scoringvars, windowvars,
                      adaptvars, segvars, jobvars>>

\* a method that computes a single metric from one signal
ComputeMetric ==
    /\ bpc = "start"
    /\ bm_method \in DOMAIN MinSamples
    /\ \E r \in ScalarOutcomes(bm_method, bm_len) :
          bm_result' = [return |-> r]
    /\ bpc' = "returned"
    /\ UNCHANGED <<nonBiomarkerVars, bm_method, bm_len, bm_velocity,
                   bm_cycles>>

\* a group method whose velocity argument is None differentiates the
\* position first
GroupRaises ==
    \/ bm_method # "compute_tremor_regularity_metrics"
         /\ ~bm_velocity /\ GradientRaises(bm_len)
    \* np.ptp and np.max of an empty array raise ValueError
    \/ bm_method = "compute_asymmetry_metrics" /\ bm_len = 0

\* the single-metric methods a group method calls, and on how many values
GroupFields ==
    CASE bm_method = "compute_smoothness_metrics" ->
           FieldsOver([sparc |-> "compute_sparc", ldljv |-> "compute_ldljv",
                       ldlja |-> "compute_ldlja",
                       normalized_jerk |-> "compute_normalized_jerk"],
                      bm_len)
      [] bm_method = "compute_bradykinesia_metrics" ->
           {a @@ b :
              a \in FieldsOver(
                      [amplitude_decrement |-> "compute_amplitude_decrement",
                       velocity_reduction |-> "compute_velocity_reduction"],
                      bm_cycles),
              b \in FieldsOver(
                      [hesitation_index |-> "compute_hesitation_index"],
                      bm_len)}
      [] bm_method = "compute_fatigue_metrics" ->
           {f @@ [performance_degradation_rate |->
                    IF f.velocity_decay = "nan" \/ f.amplitude_decay = "nan"
                    THEN "nan" ELSE "value"] :
              f \in FieldsOver(
                      [velocity_decay |-> "compute_performance_degradation",
                       amplitude_decay |-> "compute_performance_degradation",
                       consistency_decline |-> "compute_consistency_decline"],
                      bm_cycles)}
      [] bm_method = "compute_asymmetry_metrics" ->
           {a @@ b :
              a \in FieldsOver(
                      [amplitude_asymmetry |-> "compute_asymmetry_index",
                       velocity_asymmetry |-> "compute_asymmetry_index"], 1),
              b \in FieldsOver(
                      [coordination_lag |-> "compute_coordination_lag",
                       phase_coherence |-> "compute_phase_coherence"],
                      bm_len)}
      [] bm_method = "compute_tremor_regularity_metrics" ->
           {f @@ [spectral_coherence |-> "nan"] :
              f \in FieldsOver(
                      [q_factor |-> "compute_q_factor",
                       tremor_stability |-> "compute_tremor_stability",
                       amplitude_variability |->
                           "compute_amplitude_variability",
                       frequency_drift |-> "compute_frequency_drift"],
                      bm_len)}

\* compute_smoothness_metrics, compute_bradykinesia_metrics,
\* compute_fatigue_metrics, compute_asymmetry_metrics and
\* compute_tremor_regularity_metrics return normally
ComputeMetricsGroup ==
    /\ bpc = "start"
    /\ bm_method \in GroupMethods
    /\ ~GroupRaises
    /\ bm_result' \in GroupFields
    /\ bpc' = "returned"
    /\ UNCHANGED <<nonBiomarkerVars, bm_method, bm_len, bm_velocity,
                   bm_cycles>>

\* the same methods when a numpy call on the way raises: nothing catches it
ComputeMetricsGroupRaises ==
    /\ bpc = "start"
    /\ bm_method \in GroupMethods
    /\ GroupRaises
    /\ bpc' = "raised"
    /\ UNCHANGED <<nonBiomarkerVars, bm_method, bm_len, bm_velocity,
                   bm_cycles, bm_result>>

NextBiomarkers ==
    ComputeMetric \/ ComputeMetricsGroup \/ ComputeMetricsGroupRaises

SpecBiomarkers == InitBiomarkers /\ [][NextBiomarkers]_vars

\* C21: no biomarker method raises, and each returns NaN for a signal
\* shorter than its minimum; on an empty and on a single-sample signal every
\* metric computed from the signal is NaN.
C21_ShortInputNaN ==
    /\ bpc # "raised"
    /\ (bpc = "returned" /\ bm_method \in DOMAIN MinSamples
        /\ bm_len < MinSamples[bm_method])
       => bm_result.return = "nan"
    /\ (bpc = "returned" /\ bm_len <= 1
        /\ bm_method \in (DOMAIN MinSamples \ {"compute_asymmetry_index"}))
       => bm_result.return = "nan"
    /\ (bpc = "returned" /\ bm_len <= 1
        /\ bm_method \in {"compute_smoothness_metrics",
                          "compute_tremor_regularity_metrics"})
       => \A k \in DOMAIN bm_result : bm_result[k] = "nan"

(***************************************************************************)
(* AdaptiveEventDetector.detect_events_adaptive and the confidence         *)
(* threshold it overrides for the duration of the inner detect_events.     *)
(* Thresholds and confidence statistics are in hundredths; a batch of      *)
(* sequences is written as its length and the frame_indices argument as    *)
(* its length, or None.                                                    *)
(***************************************************************************)
MaxCalls == 2
MaxAdaptiveLen == 3

ConstructedThresholds == {50, 70}

FrameIndexOptions == {<<>>} \cup {<<k>> : k \in 1..MaxAdaptiveLen}

InitAdaptive ==
    /\ EventLayerIdle
    /\ ThresholdEngineIdle
    /\ ExtIdleExcept("adaptive")
    /\ ad_model \in BOOLEAN
    /\ ad_threshold \in ConstructedThresholds
    /\ ad_original = ad_threshold
    /\ ad_stats = <<>>
    /\ ad_len = 0
    /\ ad_indices = <<>>
    /\ ad_calls = 0
    /\ apc = "idle"

nonAdaptiveVars == <<edvars, hystvars, cusumvars, filtervars, methodvars,
                     runvars, fallbackvars, scoringvars, windowvars,
                     biovars, segvars, jobvars>>

\* calibrate(sequences) when calibration_stats is None: statistics are
\* stored only when a model is loaded
StatsAfterCalibrate(r) ==
    IF ad_stats # <<>> THEN ad_stats
    ELSE IF ad_model THEN <<CalibrateDetector(r)>>
    ELSE <<>>

\* detect_events reads frame_indices[i] for every i < len(sequences) in
\* _extract_events: a shorter frame_indices raises IndexError.  Without a
\* model the fallback does not read frame_indices.
InnerDetectRaises(n, indices) ==
    ad_model /\ indices # <<>> /\ indices[1] < n

\* detect_events_adaptive(sequences, frame_indices) returns
DetectEventsAdaptiveReturns ==
    /\ ad_calls < MaxCalls
    /\ \E r \in Recordings, n \in 1..MaxAdaptiveLen,
          indices \in FrameIndexOptions :
          /\ ~InnerDetectRaises(n, indices)
          /\ ad_stats' = StatsAfterCalibrate(r)
          /\ ad_len' = n
          /\ ad_indices' = indices
    /\ ad_original' = ad_threshold
    \* overridden for the inner call, then "Restore original"
    /\ ad_threshold' = ad_threshold
    /\ ad_calls' = ad_calls + 1
    /\ apc' = "returned"
    /\ UNCHANGED <<nonAdaptiveVars, ad_model>>

\* detect_events_adaptive(sequences, frame_indices) when the inner
\* detect_events raises: the exception leaves the method between the
\* override and the restore
DetectEventsAdaptiveRaises ==
    /\ ad_calls < MaxCalls
    /\ \E r \in Recordings, n \in 1..MaxAdaptiveLen,
          indices \in FrameIndexOptions :
          /\ InnerDetectRaises(n, indices)
          /\ ad_stats' = StatsAfterCalibrate(r)
          /\ ad_len' = n
          /\ ad_indices' = indices
    /\ ad_original' = ad_threshold
    /\ ad_threshold' = IF ad_stats' # <<>>
                       THEN AdaptiveConfidence(ad_stats'[1])
                       ELSE ad_threshold
    /\ ad_calls' = ad_calls + 1
    /\ apc' = "raised"
    /\ UNCHANGED <<nonAdaptiveVars, ad_model>>

NextAdaptive == DetectEventsAdaptiveReturns \/ DetectEventsAdaptiveRaises

SpecAdaptive == InitAdaptive /\ [][NextAdaptive]_vars

\* C29: detect_events_adaptive leaves confidence_threshold as it found it
\* on every way out, also when the inner detect_events raises.
C29_ThresholdRestored ==
    apc \in {"returned", "raised"} => ad_threshold = ad_original

(***************************************************************************)
(* DynamicThresholdEngine._extract_segments: the ON segments of a boolean  *)
(* state, as segment_with_hysteresis passes it.                            *)
(***************************************************************************)
MaxMaskLen == 5

Masks == UNION {[1..n -> BOOLEAN] : n \in 0..MaxMaskLen}

InitSegments ==
    /\ EventLayerIdle
    /\ ThresholdEngineIdle
    /\ ExtIdleExcept("segments")
    /\ mask \in Masks
    /\ seg_i = 0
    /\ in_segment = FALSE
    /\ seg_start = 0
    /\ segments = <<>>
    /\ gpc = "loop"

nonSegmentVars == <<edvars, hystvars, cusumvars, filtervars, methodvars,
                    runvars, fallbackvars, scoringvars, windowvars,
                    biovars, adaptvars, jobvars>>

\* a loop body that ends a segment at the first OFF index
ExtractSegmentsStep_EndAtOff ==
    /\ gpc = "loop"
    /\ seg_i < Len(mask)
    /\ IF mask[seg_i + 1] /\ ~in_segment
       THEN /\ seg_start' = seg_i
            /\ in_segment' = TRUE
            /\ UNCHANGED segments
       ELSE IF ~mask[seg_i + 1] /\ in_segment
       THEN /\ segments' = Append(segments, <<seg_start, seg_i>>)
            /\ in_segment' = FALSE
            /\ UNCHANGED seg_start
       ELSE UNCHANGED <<seg_start, in_segment, segments>>
    /\ seg_i' = seg_i + 1
    /\ UNCHANGED <<nonSegmentVars, mask, gpc>>

\* one iteration of "for i in range(len(state))"
ExtractSegmentsStep ==
    /\ gpc = "loop"
    /\ seg_i < Len(mask)
    /\ IF mask[seg_i + 1] /\ ~in_segment
       THEN /\ seg_start' = seg_i
            /\ in_segment' = TRUE
            /\ UNCHANGED segments
       ELSE IF ~mask[seg_i + 1] /\ in_segment
       THEN /\ segments' = Append(segments, <<seg_start, seg_i - 1>>)
            /\ in_segment' = FALSE
            /\ UNCHANGED seg_start
       ELSE UNCHANGED <<seg_start, in_segment, segments>>
    /\ seg_i' = seg_i + 1
    /\ UNCHANGED <<nonSegmentVars, mask, gpc>>

\* "Close final segment if needed" and return
ExtractSegmentsReturn ==
    /\ gpc = "loop"
    /\ seg_i = Len(mask)
    /\ segments' = IF in_segment
                   THEN Append(segments, <<seg_start, Len(mask) - 1>>)
                   ELSE segments
    /\ gpc' = "done"
    /\ UNCHANGED <<nonSegmentVars, mask, seg_i, in_segment, seg_start>>

NextSegments == ExtractSegmentsStep \/ ExtractSegmentsReturn

SpecSegments == InitSegments /\ [][NextSegments]_vars

\* C30: _extract_segments returns inclusive (start, end) pairs with
\* start <= end, in increasing order, with at least one OFF index between
\* two consecutive pairs, covering exactly the indices where the state is
\* ON; a segment still open at the last index ends at len - 1.
C30_SegmentsPartitionOn ==
    gpc = "done" =>
        /\ \A k \in 1..Len(segments) :
              /\ 0 <= segments[k][1]
              /\ segments[k][1] <= segments[k][2]
              /\ segments[k][2] <= Len(mask) - 1
        /\ \A k \in 1..(Len(segments) - 1) :
              /\ segments[k][2] + 1 < segments[k + 1][1]
              /\ \E x \in (segments[k][2] + 1)..(segments[k + 1][1] - 1) :
                    ~mask[x + 1]
        /\ UNION {segments[k][1]..segments[k][2] : k \in 1..Len(segments)}
             = {x \in 0..(Len(mask) - 1) : mask[x + 1]}
        /\ (Len(mask) > 0 /\ mask[Len(mask)])
             => /\ segments # <<>>
                /\ segments[Len(segments)][2] = Len(mask) - 1

\* one segment was closed by an OFF index and one by the end of the state
C30_Witness ==
    /\ gpc = "done"
    /\ mask = <<TRUE, FALSE, FALSE, TRUE, TRUE>>
    /\ segments = << <<0, 0>>, <<3, 4>> >>

(***************************************************************************)
(* The job records of the processing service.  The endpoints and the body  *)
(* of process_video_task run on the event loop, one at a time, and give    *)
(* way to each other only where the task awaits asyncio.to_thread;         *)
(* processor.process_video and the progress callback it is given run in a  *)
(* worker thread, alongside the event loop.  A job id is written as the    *)
(* number of the job; jobs[j] = <<>> stands for "job_id not in jobs".      *)
(***************************************************************************)
MaxJobs == 2

JobIds == 1..MaxJobs

\* progress reported while the script prints "Processing frame c/t":
\* int((c / t) * 70) + 20
FrameProgress == {20, 55}

InitJobs ==
    /\ EventLayerIdle
    /\ ThresholdEngineIdle
    /\ ExtIdleExcept("jobs")
    /\ jobs = [j \in JobIds |-> <<>>]
    /\ next_job = 0
    /\ task = [j \in JobIds |-> "none"]
    /\ worker = [j \in JobIds |-> "none"]

nonJobVars == <<edvars, hystvars, cusumvars, filtervars, methodvars,
                runvars, fallbackvars, scoringvars, windowvars,
                biovars, adaptvars, segvars>>

\* jobs[job_id][key] = value for the keys kept here
SetStatus(j, status) ==
    [jobs EXCEPT ![j] = <<[@[1] EXCEPT !.status = status]>>]
SetProgress(j, progress) ==
    [jobs EXCEPT ![j] = <<[@[1] EXCEPT !.progress = progress]>>]

\* POST /process: the record is created and the task is handed to
\* background_tasks
StartProcessing ==
    /\ next_job < MaxJobs
    /\ next_job' = next_job + 1
    /\ jobs' = [jobs EXCEPT ![next_job'] =
                   <<[status |-> "queued", progress |-> 0]>>]
    /\ task' = [task EXCEPT ![next_job'] = "scheduled"]
    /\ UNCHANGED <<nonJobVars, worker>>

\* the "except Exception" branch of process_video_task: its first statement
\* looks the record up again, and a KeyError there leaves the task
HandleFailure(j) ==
    IF jobs[j] = <<>>
    THEN /\ task' = [task EXCEPT ![j] = "crashed"]
         /\ UNCHANGED jobs
    ELSE /\ jobs' = SetStatus(j, "failed")
         /\ task' = [task EXCEPT ![j] = "done"]

\* process_video_task up to "await asyncio.to_thread(...)"
TaskStart(j) ==
    /\ task[j] = "scheduled"
    /\ IF jobs[j] = <<>>
       THEN HandleFailure(j) /\ UNCHANGED worker
       ELSE /\ jobs' = [jobs EXCEPT ![j] =
                           <<[status |-> "processing", progress |-> 0]>>]
            /\ task' = [task EXCEPT ![j] = "thread"]
            /\ worker' = [worker EXCEPT ![j] = "start"]
    /\ UNCHANGED <<nonJobVars, next_job>>

\* process_video in the worker thread: the checks of the paths, then
\* progress_callback(10), which is outside the method's try block
WorkerStart(j) ==
    /\ worker[j] = "start"
    /\ \/ /\ worker' = [worker EXCEPT ![j] = "error"]
          /\ UNCHANGED jobs
       \/ /\ jobs[j] = <<>>
          /\ worker' = [worker EXCEPT ![j] = "error"]
          /\ UNCHANGED jobs
       \/ /\ jobs[j] # <<>>
          /\ jobs' = SetProgress(j, 10)
          /\ worker' = [worker EXCEPT ![j] = "script"]
    /\ UNCHANGED <<nonJobVars, next_job, task>>

\* _run_processing_script reads a "Processing frame" line: the callback runs
\* inside "try: ... except: pass"
WorkerFrame(j) ==
    /\ worker[j] = "script"
    /\ \E p \in FrameProgress :
          jobs' = IF jobs[j] = <<>> THEN jobs ELSE SetProgress(j, p)
    /\ UNCHANGED <<nonJobVars, next_job, task, worker>>

\* the script ends: a non-zero return code raises ProcessingError;
\* otherwise progress_callback(90), inside the try block of process_video
WorkerScriptEnd(j) ==
    /\ worker[j] = "script"
    /\ \/ /\ worker' = [worker EXCEPT ![j] = "error"]
          /\ UNCHANGED jobs
       \/ /\ jobs[j] = <<>>
          /\ worker' = [worker EXCEPT ![j] = "error"]
          /\ UNCHANGED jobs
       \/ /\ jobs[j] # <<>>
          /\ jobs' = SetProgress(j, 90)
          /\ worker' = [worker EXCEPT ![j] = "collect"]
    /\ UNCHANGED <<nonJobVars, next_job, task>>

\* the outputs are collected, then progress_callback(100) and return
WorkerCollect(j) ==
    /\ worker[j] = "collect"
    /\ IF jobs[j] = <<>>
       THEN /\ worker' = [worker EXCEPT ![j] = "error"]
            /\ UNCHANGED jobs
       ELSE /\ jobs' = SetProgress(j, 100)
            /\ worker' = [worker EXCEPT ![j] = "ok"]
    /\ UNCHANGED <<nonJobVars, next_job, task>>

\* process_video_task after the await: "Store results", or the except
\* branch when the thread raised or the record is gone
TaskFinish(j) ==
    /\ task[j] = "thread"
    /\ worker[j] \in {"ok", "error"}
    /\ IF worker[j] = "ok" /\ jobs[j] # <<>>
       THEN /\ jobs' = [jobs EXCEPT ![j] =
                           <<[status |-> "completed", progress |-> 100]>>]
            /\ task' = [task EXCEPT ![j] = "done"]
       ELSE HandleFailure(j)
    /\ UNCHANGED <<nonJobVars, next_job, worker>>

\* POST /cancel/{job_id}, when it does not answer 404 or 400
CancelJob(j) ==
    /\ jobs[j] # <<>>
    /\ jobs[j][1].status \notin {"completed", "failed"}
    /\ jobs' = SetStatus(j, "cancelled")
    /\ UNCHANGED <<nonJobVars, next_job, task, worker>>

\* DELETE /jobs/{job_id}, when it does not answer 404
DeleteJob(j) ==
    /\ jobs[j] # <<>>
    /\ jobs' = [jobs EXCEPT ![j] = <<>>]
    /\ UNCHANGED <<nonJobVars, next_job, task, worker>>

NextJobs ==
    \/ StartProcessing
    \/ \E j \in JobIds :
          \/ TaskStart(j)
          \/ WorkerStart(j)
          \/ WorkerFrame(j)
          \/ WorkerScriptEnd(j)
          \/ WorkerCollect(j)
          \/ TaskFinish(j)
          \/ CancelJob(j)
          \/ DeleteJob(j)

SpecJobs == InitJobs /\ [][NextJobs]_vars

\* C23: once cancel_job has set a job's status to "cancelled" the status
\* stays "cancelled" for as long as the record exists, whether the job was
\* cancelled while queued or while processing.
C23_CancelledIsFinal ==
    [][ \A j \in JobIds :
           ( /\ jobs[j] # <<>>
             /\ jobs[j][1].status = "cancelled"
             /\ jobs'[j] # <<>> )
           => jobs'[j][1].status = "cancelled"
      ]_vars

\* C24: however delete_job interleaves with a job's background task, no
\* exception from reading the removed record leaves the task unhandled.
C24_DeleteNeverCrashesTask ==
    \A j \in JobIds : task[j] # "crashed"

====
